---- MODULE Spec2Model ----
(***************************************************************************)
(* MITS 88-DCDD disk controller emulation of esp32-altair-8800.            *)
(*                                                                         *)
(* Two controllers are modelled, each from its own source file:            *)
(*   - the flash / copy-on-write controller (pico_88dcdd_flash.c), whose   *)
(*     writes land in a static pool of sector patches;                     *)
(*   - the SD-card controller (esp32_88dcdd_sd_card.c), whose writes go    *)
(*     back to the image file.                                             *)
(* Every port handler is one operator from (pool, drive) to (pool, drive)  *)
(* and one action that applies it to the selected drive.                   *)
(***************************************************************************)
EXTENDS Integers, Sequences, FiniteSets, TLC

(***************************************************************************)
(* Program constants.                                                      *)
(***************************************************************************)
STATUS_ENWD == 1
STATUS_MOVE_HEAD == 2
STATUS_HEAD == 4
STATUS_SECTOR == 8
STATUS_IE == 32
STATUS_TRACK_0 == 64
STATUS_NRDA == 128

CONTROL_STEP_IN == 1
CONTROL_STEP_OUT == 2
CONTROL_HEAD_LOAD == 4
CONTROL_HEAD_UNLOAD == 8
CONTROL_IE == 16
CONTROL_ID == 32
CONTROL_HCS == 64
CONTROL_WE == 128

SECTOR_SIZE == 137
SECTORS_PER_TRACK == 32
MAX_TRACKS == 77
TRACK_SIZE == SECTORS_PER_TRACK * SECTOR_SIZE

MAX_DRIVES == 4
DRIVE_SELECT_MASK == 15
SECTOR_SHIFT_BITS == 1

PATCH_POOL_SIZE == 256
PATCH_HASH_SIZE == 16
PATCH_INDEX_INVALID == 65535

\* the sector buffer: uint8_t sector_data[SECTOR_SIZE + 2]
BUFFER_SIZE == SECTOR_SIZE + 2
\* uint8_t arithmetic
UINT8 == 256
UINT16 == 65536

(***************************************************************************)
(* Bounds of the model (not program constants).                            *)
(***************************************************************************)
\* number of port calls and loads the free-running environment makes
MaxCalls == 5

(***************************************************************************)
(* Bit operations on unsigned integers.                                    *)
(***************************************************************************)
RECURSIVE BitAnd(_, _)
BitAnd(a, b) ==
    IF a = 0 \/ b = 0 THEN 0
    ELSE (a % 2) * (b % 2) + 2 * BitAnd(a \div 2, b \div 2)

BitOr(a, b) == a + b - BitAnd(a, b)

\* (uint8_t)~bit
BitNot8(a) == (UINT8 - 1) - (a % UINT8)

RECURSIVE ShiftLeft(_, _)
ShiftLeft(a, n) == IF n = 0 THEN a ELSE ShiftLeft(2 * a, n - 1)

(***************************************************************************)
(* The disk images in flash.  An image is a byte sequence; the bytes are   *)
(* nonzero and differ from sector to sector and from image to image, so a  *)
(* byte read back tells where it came from.                                *)
(***************************************************************************)
ImageIds == {1, 2}

\* image 1: two whole sectors and 5 bytes of a third; image 2: shorter than a sector
ImageSize(id) == IF id = 1 THEN 2 * SECTOR_SIZE + 5 ELSE 5

ImageByte(id, off) == 1 + ((off * 7 + (off \div SECTOR_SIZE) * 3 + id * 31) % 200)

ImageOf(id) == [i \in 1..ImageSize(id) |-> ImageByte(id, i - 1)]

ZeroBytes(n) == [i \in 1..n |-> 0]

VARIABLES
    disk,                    \* pico_disk_controller.disk[MAX_DRIVES]
    current,                 \* pico_disk_controller.current (the drive it points at)
    current_disk,            \* pico_disk_controller.current_disk
    g_patch_pool,            \* the static patch pool
    g_patch_pool_next_free,
    g_patch_pool_used,
    g_patch_pool_exhausted,
    g_log,                   \* number of "Patch pool exhausted" lines printed
    flash,                   \* the base images in flash, by image id
    sd_disk,                 \* esp32_sd_disk_controller.disk[MAX_DRIVES]
    sd_current,              \* esp32_sd_disk_controller.current (the drive it points at)
    sd_currentDisk,          \* esp32_sd_disk_controller.currentDisk
    sd_card,                 \* the image files on the SD card, by image id
    sd_ret,                  \* what the SD controller returned for the last call
    op, arg, ret,            \* the last call, its argument and its return value
    run,                     \* the run of equal consecutive calls the last call belongs to
    calls,                   \* calls made so far
    script                   \* the environment's position in the program it runs

vars == <<disk, current, current_disk, g_patch_pool, g_patch_pool_next_free,
          g_patch_pool_used, g_patch_pool_exhausted, g_log, flash,
          sd_disk, sd_current, sd_currentDisk, sd_card, sd_ret,
          op, arg, ret, run, calls, script>>

sdVars == <<sd_disk, sd_current, sd_currentDisk, sd_card, sd_ret>>

poolVars == <<g_patch_pool, g_patch_pool_next_free, g_patch_pool_used,
              g_patch_pool_exhausted, g_log>>

Drives == 0..(MAX_DRIVES - 1)
Slots == 0..(PATCH_POOL_SIZE - 1)
Buckets == 0..(PATCH_HASH_SIZE - 1)

(***************************************************************************)
(* Status helpers (active low).                                            *)
(***************************************************************************)
\* set_status: the condition becomes true, the bit is cleared
set_status(D, bit) == [D EXCEPT !.status = BitAnd(@, BitNot8(bit))]

\* clear_status: the condition becomes false, the bit is set
clear_status(D, bit) == [D EXCEPT !.status = BitOr(@, bit)]

\* mutant of STATUS_DEFAULT: the IE bit is left out
STATUS_DEFAULT_NoIE ==
    BitOr(BitOr(BitOr(BitOr(STATUS_ENWD, STATUS_MOVE_HEAD), STATUS_HEAD),
                STATUS_TRACK_0), STATUS_NRDA)

STATUS_DEFAULT ==
    BitOr(STATUS_ENWD, BitOr(STATUS_MOVE_HEAD, BitOr(STATUS_HEAD,
        BitOr(STATUS_IE, BitOr(STATUS_TRACK_0, STATUS_NRDA)))))

(***************************************************************************)
(* The patch pool.  P is the record of the pool's globals:                 *)
(*   [slot, next_free, used, exhausted, log].                              *)
(***************************************************************************)
Pool == [slot |-> g_patch_pool, next_free |-> g_patch_pool_next_free,
         used |-> g_patch_pool_used, exhausted |-> g_patch_pool_exhausted,
         log |-> g_log]

\* a slot after pico_disk_init (static storage is zeroed, then marked free)
InitSlot ==
    [index |-> PATCH_INDEX_INVALID, data |-> ZeroBytes(SECTOR_SIZE),
     next_pool_index |-> PATCH_INDEX_INVALID]

\* g_patch_pool[s]: the pool is kept as the slots written since pico_disk_init;
\* every other slot still holds what init gave it
SlotAt(slot, s) == IF s \in DOMAIN slot THEN slot[s] ELSE InitSlot

\* g_patch_pool[s] = v
SlotPut(slot, s, v) == [t \in (DOMAIN slot) \cup {s} |-> IF t = s THEN v ELSE slot[t]]

hash_sector(index) == BitAnd(index, PATCH_HASH_SIZE - 1) % UINT8

RECURSIVE find_from(_, _, _)
find_from(slot, pool_idx, sector_index) ==
    IF pool_idx = PATCH_INDEX_INVALID THEN PATCH_INDEX_INVALID
    ELSE IF SlotAt(slot, pool_idx).index = sector_index THEN pool_idx
    ELSE find_from(slot, SlotAt(slot, pool_idx).next_pool_index, sector_index)

\* mutant of find_patch_index: every bucket of the drive is searched from the
\* first slot of the pool
find_patch_index_AnyDrive(P, D, sector_index) ==
    IF \E x \in DOMAIN P.slot : P.slot[x].index = sector_index
    THEN CHOOSE x \in DOMAIN P.slot : P.slot[x].index = sector_index
    ELSE PATCH_INDEX_INVALID

find_patch_index(P, D, sector_index) ==
    find_from(P.slot, D.patch_hash[hash_sector(sector_index)], sector_index)

\* the probes of alloc_patch's scan, from probe i on, that find a free slot
FreeProbes(P, i) ==
    {j \in i .. PATCH_POOL_SIZE - 1 :
        SlotAt(P.slot, (P.next_free + j) % PATCH_POOL_SIZE).index = PATCH_INDEX_INVALID}

\* the slot the scan stops at: that of the first probe in free, or
\* PATCH_INDEX_INVALID after PATCH_POOL_SIZE probes
FirstProbe(P, free) ==
    IF free = {} THEN PATCH_INDEX_INVALID
    ELSE (P.next_free + (CHOOSE j \in free : \A k \in free : j <= k)) % PATCH_POOL_SIZE

\* the scan of alloc_patch from probe i on
probe_from(P, i) == FirstProbe(P, FreeProbes(P, i))

\* mutant of AllocAt: a full pool gives up the slot at next_free
AllocAt_Evict(P, idx) ==
    IF idx # PATCH_INDEX_INVALID
    THEN [P |-> [P EXCEPT !.next_free = (idx + 1) % PATCH_POOL_SIZE,
                          !.used = (@ + 1) % UINT16],
          idx |-> idx]
    ELSE [P |-> P, idx |-> P.next_free]

\* mutant of AllocAt: a failed allocation is counted too
AllocAt_CountFailure(P, idx) ==
    IF idx # PATCH_INDEX_INVALID
    THEN [P |-> [P EXCEPT !.next_free = (idx + 1) % PATCH_POOL_SIZE,
                          !.used = (@ + 1) % UINT16],
          idx |-> idx]
    ELSE [P |-> [P EXCEPT !.exhausted = TRUE,
                          !.log = IF P.exhausted THEN @ ELSE @ + 1,
                          !.used = (@ + 1) % UINT16],
          idx |-> PATCH_INDEX_INVALID]

\* alloc_patch once the scan has ended at idx; returns [P, idx]
AllocAt(P, idx) ==
    IF idx # PATCH_INDEX_INVALID
    THEN [P |-> [P EXCEPT !.next_free = (idx + 1) % PATCH_POOL_SIZE,
                          !.used = (@ + 1) % UINT16],
          idx |-> idx]
    ELSE [P |-> IF P.exhausted THEN P
                ELSE [P EXCEPT !.exhausted = TRUE, !.log = @ + 1],
          idx |-> PATCH_INDEX_INVALID]

alloc_patch(P) == AllocAt(P, probe_from(P, 0))

\* mutant of NewPatch: the new patch is not put on the bucket's chain
NewPatch_NoLink(a, D, sector_index) ==
    IF a.idx = PATCH_INDEX_INVALID
    THEN [P |-> a.P, D |-> D, idx |-> PATCH_INDEX_INVALID]
    ELSE [P |-> [a.P EXCEPT !.slot = SlotPut(@, a.idx,
                    [index |-> sector_index,
                     data |-> ZeroBytes(SECTOR_SIZE),
                     next_pool_index |-> D.patch_hash[hash_sector(sector_index)]])],
          D |-> D,
          idx |-> a.idx]

\* get_patch after alloc_patch returned a = [P, idx]: initialise and link the patch
NewPatch(a, D, sector_index) ==
    IF a.idx = PATCH_INDEX_INVALID
    THEN [P |-> a.P, D |-> D, idx |-> PATCH_INDEX_INVALID]
    ELSE [P |-> [a.P EXCEPT !.slot = SlotPut(@, a.idx,
                    [index |-> sector_index,
                     data |-> ZeroBytes(SECTOR_SIZE),
                     next_pool_index |-> D.patch_hash[hash_sector(sector_index)]])],
          D |-> [D EXCEPT !.patch_hash[hash_sector(sector_index)] = a.idx],
          idx |-> a.idx]

\* mutant of GetOrCreate: a patch is allocated whether or not one exists
GetOrCreate_Always(P, D, sector_index, existing) ==
    NewPatch(alloc_patch(P), D, sector_index)

\* get_patch after find_patch_index returned existing
GetOrCreate(P, D, sector_index, existing) ==
    IF existing # PATCH_INDEX_INVALID
    THEN [P |-> P, D |-> D, idx |-> existing]
    ELSE NewPatch(alloc_patch(P), D, sector_index)

\* mutant of get_patch: with the pool full no patch is looked up
get_patch_FullFails(P, D, sector_index) ==
    IF P.used = PATCH_POOL_SIZE
    THEN NewPatch(alloc_patch(P), D, sector_index)
    ELSE GetOrCreate(P, D, sector_index, find_patch_index(P, D, sector_index))

\* returns [P, D, idx]
get_patch(P, D, sector_index) ==
    GetOrCreate(P, D, sector_index, find_patch_index(P, D, sector_index))

\* the slots on the chain that starts at pool_idx
RECURSIVE ChainSlots(_, _)
ChainSlots(slot, pool_idx) ==
    IF pool_idx = PATCH_INDEX_INVALID THEN {}
    ELSE {pool_idx} \cup ChainSlots(slot, SlotAt(slot, pool_idx).next_pool_index)

\* mutant of DriveSlots: every live slot is taken for the drive's
DriveSlots_All(P, D) ==
    {s \in DOMAIN P.slot : P.slot[s].index # PATCH_INDEX_INVALID}

\* the slots clear_patches walks: those on the drive's bucket chains
DriveSlots(P, D) == UNION {ChainSlots(P.slot, D.patch_hash[b]) : b \in Buckets}

\* mutant of FreeSlots: the freed slots are not marked free
FreeSlots_KeepIndex(P, D, freed) ==
    [P |-> [P EXCEPT
              !.used = (@ + UINT16 - (Cardinality(freed) % UINT16)) % UINT16,
              !.exhausted = FALSE],
     D |-> [D EXCEPT !.patch_hash = [b \in Buckets |-> PATCH_INDEX_INVALID]]]

\* clear_patches, freed being the slots it walks
FreeSlots(P, D, freed) ==
    [P |-> [P EXCEPT
              !.slot = [s \in DOMAIN @ |->
                          IF s \in freed
                          THEN [@[s] EXCEPT !.index = PATCH_INDEX_INVALID,
                                            !.next_pool_index = PATCH_INDEX_INVALID]
                          ELSE @[s]],
              !.used = (@ + UINT16 - (Cardinality(freed) % UINT16)) % UINT16,
              !.exhausted = FALSE],
     D |-> [D EXCEPT !.patch_hash = [b \in Buckets |-> PATCH_INDEX_INVALID]]]

\* mutant of clear_patches: the bucket heads are left as they were
clear_patches_KeepHeads(P, D) ==
    [P |-> FreeSlots(P, D, DriveSlots(P, D)).P, D |-> D]

\* returns [P, D]
clear_patches(P, D) == FreeSlots(P, D, DriveSlots(P, D))

\* mutant of FlushIndex: the quotient is kept in 8 bits
FlushIndex_Narrow(D) == (D.disk_pointer \div SECTOR_SIZE) % UINT8

\* the sector index flush_sector files the buffer under
FlushIndex(D) == (D.disk_pointer \div SECTOR_SIZE) % UINT16

\* mutant of FlushInto: the copy is one byte short
FlushInto_ShortCopy(g, buffer) ==
    [P |-> IF g.idx # PATCH_INDEX_INVALID
           THEN [g.P EXCEPT !.slot[g.idx].data =
                    [i \in 1..SECTOR_SIZE |-> IF i < SECTOR_SIZE THEN buffer[i] ELSE @[i]]]
           ELSE g.P,
     D |-> [g.D EXCEPT !.sector_dirty = FALSE,
                       !.have_sector_data = FALSE,
                       !.sector_pointer = 0]]

\* flush_sector after get_patch returned g = [P, D, idx]: copy the buffer, reset the flags
FlushInto(g, buffer) ==
    [P |-> IF g.idx # PATCH_INDEX_INVALID
           THEN [g.P EXCEPT !.slot[g.idx].data = SubSeq(buffer, 1, SECTOR_SIZE)]
           ELSE g.P,
     D |-> [g.D EXCEPT !.sector_dirty = FALSE,
                       !.have_sector_data = FALSE,
                       !.sector_pointer = 0]]

\* returns [P, D]
flush_sector(P, D) ==
    IF ~D.sector_dirty THEN [P |-> P, D |-> D]
    ELSE FlushInto(get_patch(P, D, FlushIndex(D)), D.sector_data)

\* mutant of SeekTrack: the sector count is left as it was
SeekTrack_KeepSector(f) ==
    [P |-> f.P,
     D |-> [f.D EXCEPT !.disk_pointer = f.D.track * TRACK_SIZE,
                       !.have_sector_data = FALSE,
                       !.sector_pointer = 0]]

\* seek_to_track after the flush returned f = [P, D]
SeekTrack(f) ==
    [P |-> f.P,
     D |-> [f.D EXCEPT !.disk_pointer = f.D.track * TRACK_SIZE,
                       !.have_sector_data = FALSE,
                       !.sector_pointer = 0,
                       !.sector = 0]]

\* mutant of seek_to_track: the drive is repositioned before the flush
seek_to_track_SeekFirst(P, D) ==
    IF ~D.disk_loaded THEN [P |-> P, D |-> D]
    ELSE SeekTrack(flush_sector(P, [D EXCEPT !.disk_pointer = D.track * TRACK_SIZE]))

\* returns [P, D]
seek_to_track(P, D) ==
    IF ~D.disk_loaded THEN [P |-> P, D |-> D]
    ELSE SeekTrack(flush_sector(P, D))

(***************************************************************************)
(* The drive after pico_disk_init.                                         *)
(***************************************************************************)
InitDrive ==
    [track |-> 0, sector |-> 0, status |-> STATUS_DEFAULT, write_status |-> 0,
     disk_pointer |-> 0, sector_pointer |-> 0,
     sector_data |-> ZeroBytes(BUFFER_SIZE),
     sector_dirty |-> FALSE, have_sector_data |-> FALSE,
     disk_loaded |-> FALSE, disk_size |-> 0, disk_image_flash |-> 0,
     patch_hash |-> [b \in Buckets |-> PATCH_INDEX_INVALID]]

(***************************************************************************)
(* The handlers, as operators: each returns [P, D, ret].                   *)
(***************************************************************************)
\* the status pico_disk_load leaves
LoadedStatus ==
    BitAnd(BitAnd(BitAnd(STATUS_DEFAULT, BitNot8(STATUS_MOVE_HEAD)),
                  BitNot8(STATUS_TRACK_0)),
           BitNot8(STATUS_SECTOR))

\* mutant of BindImage: the track is not reset
BindImage_KeepTrack(c, image, size) ==
    [P |-> c.P,
     D |-> [c.D EXCEPT
              !.disk_image_flash = image,
              !.disk_size = size,
              !.disk_loaded = TRUE,
              !.disk_pointer = 0,
              !.sector = 0,
              !.sector_pointer = 0,
              !.sector_dirty = FALSE,
              !.have_sector_data = FALSE,
              !.write_status = 0,
              !.patch_hash = [b \in Buckets |-> PATCH_INDEX_INVALID],
              !.status = LoadedStatus],
     ret |-> 1]

\* pico_disk_load after clear_patches returned c = [P, D]
BindImage(c, image, size) ==
    [P |-> c.P,
     D |-> [c.D EXCEPT
              !.disk_image_flash = image,
              !.disk_size = size,
              !.disk_loaded = TRUE,
              !.disk_pointer = 0,
              !.sector = 0,
              !.track = 0,
              !.sector_pointer = 0,
              !.sector_dirty = FALSE,
              !.have_sector_data = FALSE,
              !.write_status = 0,
              !.patch_hash = [b \in Buckets |-> PATCH_INDEX_INVALID],
              !.status = LoadedStatus],
     ret |-> 1]

\* pico_disk_load on a valid drive number
pico_disk_load(P, D, image, size) == BindImage(clear_patches(P, D), image, size)

\* mutant of SelectedDrive: the drive byte is not masked
SelectedDrive_NoMask(drive) ==
    IF drive < MAX_DRIVES
    THEN drive
    ELSE 0

\* the drive number pico_disk_select selects
SelectedDrive(drive) ==
    IF BitAnd(drive, DRIVE_SELECT_MASK) < MAX_DRIVES
    THEN BitAnd(drive, DRIVE_SELECT_MASK)
    ELSE 0

\* mutant of AwayFromTrack0: the flag is left as it was
AwayFromTrack0_Keep(D) == D

\* if (disk->track != 0) clear_status(STATUS_TRACK_0)
AwayFromTrack0(D) == IF D.track # 0 THEN clear_status(D, STATUS_TRACK_0) ELSE D

\* mutant of AtTrack0: the flag is asserted one track early
AtTrack0_Early(D) == IF D.track <= 1 THEN set_status(D, STATUS_TRACK_0) ELSE D

\* if (disk->track == 0) set_status(STATUS_TRACK_0)
AtTrack0(D) == IF D.track = 0 THEN set_status(D, STATUS_TRACK_0) ELSE D

\* the track and TRACK_0 flag after a step in
StepInTrack(D) ==
    AwayFromTrack0(IF D.track < MAX_TRACKS - 1 THEN [D EXCEPT !.track = @ + 1] ELSE D)

\* the track and TRACK_0 flag after a step out
StepOutTrack(D) ==
    AtTrack0(IF D.track > 0 THEN [D EXCEPT !.track = @ - 1] ELSE D)

\* mutant of HeadLoad: NRDA is not asserted
HeadLoad_NoNrda(D) == set_status(D, STATUS_HEAD)

HeadLoad(D) == set_status(set_status(D, STATUS_HEAD), STATUS_NRDA)

HeadUnload(D) == clear_status(D, STATUS_HEAD)

\* mutant of WriteEnable: the write counter is left as it was
WriteEnable_KeepCount(D) == set_status(D, STATUS_ENWD)

WriteEnable(D) == [set_status(D, STATUS_ENWD) EXCEPT !.write_status = 0]

\* the stages of pico_disk_function, in the order of the code; r = [P, D]
FnStepIn(r, control) ==
    IF BitAnd(control, CONTROL_STEP_IN) # 0
    THEN seek_to_track(r.P, StepInTrack(r.D)) ELSE r

FnStepOut(r, control) ==
    IF BitAnd(control, CONTROL_STEP_OUT) # 0
    THEN seek_to_track(r.P, StepOutTrack(r.D)) ELSE r

FnHeadLoad(r, control) ==
    IF BitAnd(control, CONTROL_HEAD_LOAD) # 0
    THEN [r EXCEPT !.D = HeadLoad(@)] ELSE r

FnHeadUnload(r, control) ==
    IF BitAnd(control, CONTROL_HEAD_UNLOAD) # 0
    THEN [r EXCEPT !.D = HeadUnload(@)] ELSE r

FnWriteEnable(r, control) ==
    IF BitAnd(control, CONTROL_WE) # 0
    THEN [r EXCEPT !.D = WriteEnable(@)] ELSE r

Returning(r, v) == [P |-> r.P, D |-> r.D, ret |-> v]

\* mutant of pico_disk_function: STEP_OUT is served before STEP_IN
pico_disk_function_OutFirst(P, D, control) ==
    IF ~D.disk_loaded THEN [P |-> P, D |-> D, ret |-> 0]
    ELSE Returning(
           FnWriteEnable(
             FnHeadUnload(
               FnHeadLoad(
                 FnStepIn(
                   FnStepOut([P |-> P, D |-> D], control),
                   control),
                 control),
               control),
             control),
           0)

\* mutant of pico_disk_function: the HCS bit unloads the head
pico_disk_function_HcsUnloads(P, D, control) ==
    IF ~D.disk_loaded THEN [P |-> P, D |-> D, ret |-> 0]
    ELSE Returning(
           FnWriteEnable(
             FnHeadUnload(
               FnHeadLoad(
                 FnStepOut(
                   FnStepIn([P |-> P, D |-> D], control),
                   control),
                 control),
               IF BitAnd(control, CONTROL_HCS) # 0 THEN CONTROL_HEAD_UNLOAD ELSE control),
             control),
           0)

pico_disk_function(P, D, control) ==
    IF ~D.disk_loaded THEN [P |-> P, D |-> D, ret |-> 0]
    ELSE Returning(
           FnWriteEnable(
             FnHeadUnload(
               FnHeadLoad(
                 FnStepOut(
                   FnStepIn([P |-> P, D |-> D], control),
                   control),
                 control),
               control),
             control),
           0)

\* the byte pico_disk_sector returns for a drive positioned at a sector
SectorByte(D) ==
    BitOr(BitOr(192, ShiftLeft(D.sector, SECTOR_SHIFT_BITS)),
          IF D.sector_pointer = 0 THEN 0 ELSE 1) % UINT8

\* mutant of WrapSector: the wrap comes one sector early
WrapSector_Early(D) ==
    IF D.sector = SECTORS_PER_TRACK - 1 THEN [D EXCEPT !.sector = 0] ELSE D

\* pico_disk_sector: wrap at the end of the track
WrapSector(D) == IF D.sector = SECTORS_PER_TRACK THEN [D EXCEPT !.sector = 0] ELSE D

\* mutant of SeekSector: sector_pointer is not reset
SeekSector_KeepPointer(f) ==
    [P |-> f.P,
     D |-> [f.D EXCEPT
              !.disk_pointer = f.D.track * TRACK_SIZE + f.D.sector * SECTOR_SIZE,
              !.have_sector_data = FALSE]]

\* pico_disk_sector after the flush returned f = [P, D]: reposition
SeekSector(f) ==
    [P |-> f.P,
     D |-> [f.D EXCEPT
              !.disk_pointer = f.D.track * TRACK_SIZE + f.D.sector * SECTOR_SIZE,
              !.sector_pointer = 0,
              !.have_sector_data = FALSE]]

\* pico_disk_sector once repositioned: compose the byte, then sector++
SectorResult(r) ==
    [P |-> r.P,
     D |-> [r.D EXCEPT !.sector = (@ + 1) % UINT8],
     ret |-> SectorByte(r.D)]

pico_disk_sector(P, D) ==
    IF ~D.disk_loaded THEN [P |-> P, D |-> D, ret |-> 192]
    ELSE SectorResult(SeekSector(flush_sector(P, WrapSector(D))))

\* the index pico_disk_write stores at
WriteIndex(D) ==
    IF D.sector_pointer >= SECTOR_SIZE + 2 THEN SECTOR_SIZE + 1 ELSE D.sector_pointer

\* pico_disk_write: the store into the sector buffer
StoreByte(D, data) ==
    [D EXCEPT !.sector_data[WriteIndex(D) + 1] = data,
              !.sector_pointer = (WriteIndex(D) + 1) % UINT8,
              !.sector_dirty = TRUE,
              !.have_sector_data = TRUE]

\* mutant of WriteFlushes: the threshold is one store later
WriteFlushes_Late(D) == D.write_status = SECTOR_SIZE + 1

\* whether this store is the one that flushes and disarms
WriteFlushes(D) == D.write_status = SECTOR_SIZE

\* pico_disk_write after the threshold flush returned f = [P, D]
Disarm(f) ==
    [P |-> f.P,
     D |-> clear_status([f.D EXCEPT !.write_status = 0], STATUS_ENWD),
     ret |-> 0]

\* pico_disk_write after the store: flush and disarm, or count
CountWrite(P, D) ==
    IF WriteFlushes(D)
    THEN Disarm(flush_sector(P, D))
    ELSE [P |-> P, D |-> [D EXCEPT !.write_status = (@ + 1) % UINT8], ret |-> 0]

\* mutant of pico_disk_write: the disk_loaded test is missing
pico_disk_write_Unguarded(P, D, data) ==
    CountWrite(P, StoreByte(D, data))

\* mutant of pico_disk_write: a byte is taken only while ENWD is asserted
pico_disk_write_NeedsEnable(P, D, data) ==
    IF ~D.disk_loaded \/ BitAnd(D.status, STATUS_ENWD) # 0 THEN [P |-> P, D |-> D, ret |-> 0]
    ELSE CountWrite(P, StoreByte(D, data))

pico_disk_write(P, D, data) ==
    IF ~D.disk_loaded THEN [P |-> P, D |-> D, ret |-> 0]
    ELSE CountWrite(P, StoreByte(D, data))

\* whether the sector the drive is positioned at lies inside its image
InsideImage(D) == D.disk_pointer + SECTOR_SIZE <= D.disk_size

\* mutant of SourceBytes: the patch is not applied
SourceBytes_NoOverlay(P, D, F, patch_idx) ==
    [i \in 1..SECTOR_SIZE |-> F[D.disk_image_flash][D.disk_pointer + i]]

\* the SECTOR_SIZE bytes pico_disk_read copies for a sector inside the image:
\* the image's, overlaid by the patch found at patch_idx
SourceBytes(P, D, F, patch_idx) ==
    IF patch_idx # PATCH_INDEX_INVALID
    THEN SlotAt(P.slot, patch_idx).data
    ELSE [i \in 1..SECTOR_SIZE |-> F[D.disk_image_flash][D.disk_pointer + i]]

\* the sector buffer with its first SECTOR_SIZE bytes replaced by src
Refilled(D, src) ==
    [i \in 1..BUFFER_SIZE |-> IF i <= SECTOR_SIZE THEN src[i] ELSE D.sector_data[i]]

\* mutant of LoadedBuffer: the patch is applied outside the image too
LoadedBuffer_PatchOutside(P, D, F) ==
    IF InsideImage(D)
    THEN Refilled(D, SourceBytes(P, D, F,
                      find_patch_index(P, D, (D.disk_pointer \div SECTOR_SIZE) % UINT16)))
    ELSE IF find_patch_index(P, D, (D.disk_pointer \div SECTOR_SIZE) % UINT16) # PATCH_INDEX_INVALID
    THEN Refilled(D, SlotAt(P.slot,
                      find_patch_index(P, D, (D.disk_pointer \div SECTOR_SIZE) % UINT16)).data)
    ELSE Refilled(D, ZeroBytes(SECTOR_SIZE))

\* the sector buffer after pico_disk_read has (re)loaded it
LoadedBuffer(P, D, F) ==
    IF InsideImage(D)
    THEN Refilled(D, SourceBytes(P, D, F,
                      find_patch_index(P, D, (D.disk_pointer \div SECTOR_SIZE) % UINT16)))
    ELSE Refilled(D, ZeroBytes(SECTOR_SIZE))

\* pico_disk_read: load the sector if the buffer does not hold it
FillBuffer(P, D, F) ==
    IF D.have_sector_data THEN D
    ELSE [D EXCEPT !.sector_pointer = 0,
                   !.sector_data = LoadedBuffer(P, D, F),
                   !.have_sector_data = InsideImage(D)]

\* the bytes a read outside the sector buffer can yield
OutOfBufferBytes == 0..(UINT8 - 1)

\* mutant of ReadByte: the pointer is advanced before the byte is fetched
ReadByte_PreIncrement(P, D) ==
    IF D.sector_pointer + 1 < BUFFER_SIZE
    THEN {[P |-> P,
           D |-> [D EXCEPT !.sector_pointer = (@ + 1) % UINT8],
           ret |-> D.sector_data[D.sector_pointer + 2]]}
    ELSE {[P |-> P,
           D |-> [D EXCEPT !.sector_pointer = (@ + 1) % UINT8],
           ret |-> v] : v \in OutOfBufferBytes}

\* pico_disk_read: return sector_data[sector_pointer++]; the outcomes are several
\* only when the index lies outside the buffer
ReadByte(P, D) ==
    IF D.sector_pointer < BUFFER_SIZE
    THEN {[P |-> P,
           D |-> [D EXCEPT !.sector_pointer = (@ + 1) % UINT8],
           ret |-> D.sector_data[D.sector_pointer + 1]]}
    ELSE {[P |-> P,
           D |-> [D EXCEPT !.sector_pointer = (@ + 1) % UINT8],
           ret |-> v] : v \in OutOfBufferBytes}

\* returns the set of outcomes [P, D, ret]
pico_disk_read(P, D, F) ==
    IF ~D.disk_loaded THEN {[P |-> P, D |-> D, ret |-> 0]}
    ELSE ReadByte(P, FillBuffer(P, D, F))

(***************************************************************************)
(* The SD-card controller (esp32_88dcdd_sd_card.c).  A drive's image is a  *)
(* file on the card, opened "r+b"; the drive holds the stream.             *)
(* Operators take the card C (file contents by image id) and a drive D.    *)
(* A stream is [path, pos, last]: the file it is open on, its position,    *)
(* and the kind of its last operation.  Writes to the card succeed.        *)
(***************************************************************************)
\* disk->file == NULL
NoFile == [path |-> 0, pos |-> 0, last |-> "none"]

\* esp32_sd_disk_init: one drive
SdInitDrive ==
    [status |-> STATUS_DEFAULT, track |-> 0, sector |-> 0, disk_loaded |-> FALSE,
     file |-> NoFile, write_status |-> 0, diskPointer |-> 0, sectorPointer |-> 0,
     sectorData |-> ZeroBytes(BUFFER_SIZE),
     sectorDirty |-> FALSE, haveSectorData |-> FALSE]

\* a file of the card: its length and its bytes, by place; a place the file
\* has no byte for is in a gap
CardFile(bytes) == [len |-> Len(bytes), at |-> bytes]

\* the byte of file f at place i (places count from 1)
FileByte(f, i) == IF i \in DOMAIN f.at THEN f.at[i] ELSE 0

\* fseek(disk->file, offset, SEEK_SET)
fseek(D, offset) == [D EXCEPT !.file.pos = offset, !.file.last = "seek"]

\* the number of bytes fread(disk->sectorData, 1, SECTOR_SIZE, disk->file) reads
BytesRead(C, D) ==
    IF C[D.file.path].len <= D.file.pos THEN 0
    ELSE IF C[D.file.path].len - D.file.pos >= SECTOR_SIZE THEN SECTOR_SIZE
    ELSE C[D.file.path].len - D.file.pos

\* esp32_sd_disk_read: memset, then fread of n bytes, then haveSectorData
ReadInto(C, D, n) ==
    [D EXCEPT !.sectorData =
                 [i \in 1..BUFFER_SIZE |->
                     IF i <= n THEN FileByte(C[D.file.path], D.file.pos + i)
                     ELSE IF i <= SECTOR_SIZE THEN 0
                     ELSE @[i]],
              !.file.pos = @ + n,
              !.file.last = IF n < SECTOR_SIZE THEN "eof" ELSE "read",
              !.haveSectorData = (n > 0)]

\* the offsets the fwrite of writeSector can land at.  Output that directly
\* follows input on an update stream, with no positioning call between and
\* no end-of-file met, is undefined: the bytes land at the stream's position
\* or where the read-ahead left the file, its end.
WriteOffsets(C, D) ==
    IF D.file.last = "read"
    THEN {D.file.pos, C[D.file.path].len}
    ELSE {D.file.pos}

\* a file after SECTOR_SIZE bytes of data were written at offset; a write past
\* the end leaves a gap that reads as zeros
FileWritten(old, offset, data) ==
    [len |-> IF old.len >= offset + SECTOR_SIZE THEN old.len ELSE offset + SECTOR_SIZE,
     at |-> [i \in DOMAIN old.at \cup ((offset + 1)..(offset + SECTOR_SIZE)) |->
               IF i > offset /\ i <= offset + SECTOR_SIZE THEN data[i - offset]
               ELSE old.at[i]]]

\* writeSector once fwrite wrote at offset and fflush ran
Written(C, D, offset) ==
    [C |-> [C EXCEPT ![D.file.path] = FileWritten(@, offset, D.sectorData)],
     D |-> [D EXCEPT !.file.pos = offset + SECTOR_SIZE,
                     !.file.last = "flush",
                     !.sectorPointer = 0,
                     !.sectorDirty = FALSE]]

\* writeSector: the set of outcomes [C, D]
writeSector(C, D) ==
    IF ~D.sectorDirty \/ D.file = NoFile
    THEN {[C |-> C, D |-> D]}
    ELSE {Written(C, D, offset) : offset \in WriteOffsets(C, D)}

\* seek_to_track after writeSector returned w = [C, D]
SdSeekTrack(w) ==
    [C |-> w.C,
     D |-> [fseek(w.D, w.D.track * TRACK_SIZE) EXCEPT
              !.diskPointer = w.D.track * TRACK_SIZE,
              !.haveSectorData = FALSE,
              !.sectorPointer = 0,
              !.sector = 0]]

\* seek_to_track of the SD controller: the set of outcomes [C, D]
sd_seek_to_track(C, D) ==
    IF ~D.disk_loaded \/ D.file = NoFile
    THEN {[C |-> C, D |-> D]}
    ELSE {SdSeekTrack(w) : w \in writeSector(C, D)}

\* the status esp32_sd_disk_load leaves
SdLoadedStatus ==
    BitAnd(BitAnd(BitAnd(STATUS_DEFAULT, BitNot8(STATUS_MOVE_HEAD)),
                  BitNot8(STATUS_TRACK_0)),
           BitNot8(STATUS_SECTOR))

\* esp32_sd_disk_load: close the file the drive holds
SdClosed(D) ==
    IF D.disk_loaded /\ D.file # NoFile
    THEN [D EXCEPT !.file = NoFile, !.disk_loaded = FALSE]
    ELSE D

\* esp32_sd_disk_load once fopen succeeded
SdOpened(D, path) ==
    [D EXCEPT !.file = [path |-> path, pos |-> 0, last |-> "seek"],
              !.disk_loaded = TRUE,
              !.diskPointer = 0,
              !.sector = 0,
              !.track = 0,
              !.sectorPointer = 0,
              !.sectorDirty = FALSE,
              !.haveSectorData = FALSE,
              !.write_status = 0,
              !.status = SdLoadedStatus]

\* a path the card has no file for
NoSuchFile == 0

\* esp32_sd_disk_load on a valid drive number; fopen fails when the card has
\* no such file
esp32_sd_disk_load(C, D, path) ==
    IF path \in DOMAIN C
    THEN [C |-> C, D |-> SdOpened(SdClosed(D), path), ret |-> 1]
    ELSE [C |-> C, D |-> [SdClosed(D) EXCEPT !.file = NoFile], ret |-> 0]

\* the drive number esp32_sd_disk_select selects
SdSelectedDrive(drive) ==
    IF BitAnd(drive, DRIVE_SELECT_MASK) < MAX_DRIVES
    THEN BitAnd(drive, DRIVE_SELECT_MASK)
    ELSE 0

\* if (disk->track != 0) clear_status(STATUS_TRACK_0)
SdAwayFromTrack0(D) == IF D.track # 0 THEN clear_status(D, STATUS_TRACK_0) ELSE D

\* if (disk->track == 0) set_status(STATUS_TRACK_0)
SdAtTrack0(D) == IF D.track = 0 THEN set_status(D, STATUS_TRACK_0) ELSE D

\* the track and TRACK_0 flag after a step in
SdStepInTrack(D) ==
    SdAwayFromTrack0(IF D.track < MAX_TRACKS - 1 THEN [D EXCEPT !.track = @ + 1] ELSE D)

\* the track and TRACK_0 flag after a step out
SdStepOutTrack(D) ==
    SdAtTrack0(IF D.track > 0 THEN [D EXCEPT !.track = @ - 1] ELSE D)

\* the stages of esp32_sd_disk_function, in the order of the code, each on the
\* set R of outcomes [C, D] of the stage before
SdFnStepIn(R, control) ==
    IF BitAnd(control, CONTROL_STEP_IN) # 0
    THEN UNION {sd_seek_to_track(r.C, SdStepInTrack(r.D)) : r \in R} ELSE R

SdFnStepOut(R, control) ==
    IF BitAnd(control, CONTROL_STEP_OUT) # 0
    THEN UNION {sd_seek_to_track(r.C, SdStepOutTrack(r.D)) : r \in R} ELSE R

SdFnHeadLoad(R, control) ==
    IF BitAnd(control, CONTROL_HEAD_LOAD) # 0
    THEN {[r EXCEPT !.D = set_status(set_status(@, STATUS_HEAD), STATUS_NRDA)] : r \in R}
    ELSE R

SdFnHeadUnload(R, control) ==
    IF BitAnd(control, CONTROL_HEAD_UNLOAD) # 0
    THEN {[r EXCEPT !.D = clear_status(@, STATUS_HEAD)] : r \in R} ELSE R

SdFnWriteEnable(R, control) ==
    IF BitAnd(control, CONTROL_WE) # 0
    THEN {[r EXCEPT !.D = [set_status(@, STATUS_ENWD) EXCEPT !.write_status = 0]] : r \in R}
    ELSE R

SdReturning(R, v) == {[C |-> r.C, D |-> r.D, ret |-> v] : r \in R}

\* returns the set of outcomes [C, D, ret]
esp32_sd_disk_function(C, D, control) ==
    IF ~D.disk_loaded THEN {[C |-> C, D |-> D, ret |-> 0]}
    ELSE SdReturning(
           SdFnWriteEnable(
             SdFnHeadUnload(
               SdFnHeadLoad(
                 SdFnStepOut(
                   SdFnStepIn({[C |-> C, D |-> D]}, control),
                   control),
                 control),
               control),
             control),
           0)

\* esp32_sd_disk_sector: wrap at the end of the track
SdWrapSector(D) == IF D.sector = SECTORS_PER_TRACK THEN [D EXCEPT !.sector = 0] ELSE D

\* esp32_sd_disk_sector after writeSector returned w = [C, D]: seek the file,
\* reposition
SdSeekSector(w) ==
    [C |-> w.C,
     D |-> [(IF w.D.file # NoFile
             THEN fseek(w.D, w.D.track * TRACK_SIZE + w.D.sector * SECTOR_SIZE)
             ELSE w.D) EXCEPT
              !.diskPointer = w.D.track * TRACK_SIZE + w.D.sector * SECTOR_SIZE,
              !.sectorPointer = 0,
              !.haveSectorData = FALSE]]

\* esp32_sd_disk_sector once repositioned: compose the byte, then sector++
SdSectorResult(r) ==
    [C |-> r.C,
     D |-> [r.D EXCEPT !.sector = (@ + 1) % UINT8],
     ret |-> BitOr(BitOr(192, ShiftLeft(r.D.sector, SECTOR_SHIFT_BITS)),
                   IF r.D.sectorPointer = 0 THEN 0 ELSE 1) % UINT8]

\* returns the set of outcomes [C, D, ret]
esp32_sd_disk_sector(C, D) ==
    IF ~D.disk_loaded THEN {[C |-> C, D |-> D, ret |-> 192]}
    ELSE {SdSectorResult(SdSeekSector(w)) : w \in writeSector(C, SdWrapSector(D))}

\* the index esp32_sd_disk_write stores at
SdWriteIndex(D) ==
    IF D.sectorPointer >= SECTOR_SIZE + 2 THEN SECTOR_SIZE + 1 ELSE D.sectorPointer

\* esp32_sd_disk_write: the store into the sector buffer
SdStoreByte(D, data) ==
    [D EXCEPT !.sectorData[SdWriteIndex(D) + 1] = data,
              !.sectorPointer = (SdWriteIndex(D) + 1) % UINT8,
              !.sectorDirty = TRUE]

\* mutant of SdDisarm: the write counter is not zeroed
SdDisarm_KeepCount(w) ==
    [C |-> w.C,
     D |-> clear_status(w.D, STATUS_ENWD),
     ret |-> 0]

\* esp32_sd_disk_write after the threshold writeSector returned w = [C, D]
SdDisarm(w) ==
    [C |-> w.C,
     D |-> clear_status([w.D EXCEPT !.write_status = 0], STATUS_ENWD),
     ret |-> 0]

\* esp32_sd_disk_write after the store: write back and disarm, or count
SdCountWrite(C, D) ==
    IF D.write_status = SECTOR_SIZE
    THEN {SdDisarm(w) : w \in writeSector(C, D)}
    ELSE {[C |-> C, D |-> [D EXCEPT !.write_status = (@ + 1) % UINT8], ret |-> 0]}

\* returns the set of outcomes [C, D, ret]
esp32_sd_disk_write(C, D, data) ==
    IF ~D.disk_loaded THEN {[C |-> C, D |-> D, ret |-> 0]}
    ELSE SdCountWrite(C, SdStoreByte(D, data))

\* esp32_sd_disk_read: load the sector if the buffer does not hold it
SdFillBuffer(C, D) ==
    IF D.haveSectorData THEN D
    ELSE ReadInto(C, [D EXCEPT !.sectorPointer = 0], BytesRead(C, D))

\* esp32_sd_disk_read: return sectorData[sectorPointer++]; the outcomes are
\* several only when the index lies outside the buffer
SdReadByte(C, D) ==
    IF D.sectorPointer < BUFFER_SIZE
    THEN {[C |-> C,
           D |-> [D EXCEPT !.sectorPointer = (@ + 1) % UINT8],
           ret |-> D.sectorData[D.sectorPointer + 1]]}
    ELSE {[C |-> C,
           D |-> [D EXCEPT !.sectorPointer = (@ + 1) % UINT8],
           ret |-> v] : v \in OutOfBufferBytes}

\* returns the set of outcomes [C, D, ret]
esp32_sd_disk_read(C, D) ==
    IF ~D.disk_loaded \/ D.file = NoFile THEN {[C |-> C, D |-> D, ret |-> 0]}
    ELSE SdReadByte(C, SdFillBuffer(C, D))

(***************************************************************************)
(* The environment: the 8080 program and the host that loads images.       *)
(***************************************************************************)
\* bytes the CPU writes to port 0x0A: none occurs in an image
DataBytes == {201, 202}

\* bytes the CPU writes to port 0x08
SelectBytes == {1, 20}

\* bytes the CPU writes to port 0x09
ControlBytes == {1, 2, 12, 128, 112}

\* drive numbers the host loads, 4 being out of range
LoadDrives == {0, 1, 4}

SetPool(P) ==
    /\ g_patch_pool' = P.slot
    /\ g_patch_pool_next_free' = P.next_free
    /\ g_patch_pool_used' = P.used
    /\ g_patch_pool_exhausted' = P.exhausted
    /\ g_log' = P.log

\* the bookkeeping of a call: what it was, what it returned, the run it extends
Called(name, a, r) ==
    /\ op' = name
    /\ arg' = a
    /\ ret' = r
    /\ run' = IF run.op = name
              THEN [run EXCEPT !.n = @ + 1]
              ELSE [op |-> name, n |-> 1, prevOp |-> op, prevArg |-> arg]
    /\ calls' = calls + 1

\* apply a handler's result to the selected drive
Apply(r) ==
    /\ SetPool(r.P)
    /\ disk' = [disk EXCEPT ![current] = r.D]

\* esp32_sd_disk_init; the card holds the same images as the flash
SdInit ==
    /\ sd_disk = [d \in Drives |-> SdInitDrive]
    /\ sd_current = 0
    /\ sd_currentDisk = 0
    /\ sd_card = [id \in ImageIds |-> CardFile(ImageOf(id))]
    /\ sd_ret = 0

Init ==
    /\ disk = [d \in Drives |-> InitDrive]
    /\ current = 0
    /\ current_disk = 0
    /\ g_patch_pool = [s \in {} |-> InitSlot]
    /\ g_patch_pool_next_free = 0
    /\ g_patch_pool_used = 0
    /\ g_patch_pool_exhausted = FALSE
    /\ g_log = 0
    /\ flash = [id \in ImageIds |-> ImageOf(id)]
    /\ SdInit
    /\ op = "init" /\ arg = 0 /\ ret = 0
    /\ run = [op |-> "init", n |-> 1, prevOp |-> "init", prevArg |-> 0]
    /\ calls = 0
    /\ script = [phase |-> "free"]

Load(drive, image) ==
    /\ IF drive >= MAX_DRIVES
       THEN /\ UNCHANGED <<disk, poolVars>>
            /\ Called("load", drive, 0)
       ELSE \E r \in {pico_disk_load(Pool, disk[drive], image, Len(flash[image]))} :
            /\ SetPool(r.P)
            /\ disk' = [disk EXCEPT ![drive] = r.D]
            /\ Called("load", drive, r.ret)
    /\ UNCHANGED <<current, current_disk, flash>>

\* mutant of Select: the drive that is left is flushed and rewound first
Select_Flushes(drive) ==
    /\ \E r \in {seek_to_track(Pool, disk[current])} : Apply(r)
    /\ current_disk' = SelectedDrive(drive)
    /\ current' = SelectedDrive(drive)
    /\ Called("select", drive, 0)
    /\ UNCHANGED flash

Select(drive) ==
    /\ current_disk' = SelectedDrive(drive)
    /\ current' = SelectedDrive(drive)
    /\ Called("select", drive, 0)
    /\ UNCHANGED <<disk, poolVars, flash>>

Status ==
    /\ Called("status", 0, disk[current].status)
    /\ UNCHANGED <<disk, current, current_disk, poolVars, flash>>

Function(control) ==
    /\ \E r \in {pico_disk_function(Pool, disk[current], control)} :
          Apply(r) /\ Called("function", control, r.ret)
    /\ UNCHANGED <<current, current_disk, flash>>

Sector ==
    /\ \E r \in {pico_disk_sector(Pool, disk[current])} :
          Apply(r) /\ Called("sector", 0, r.ret)
    /\ UNCHANGED <<current, current_disk, flash>>

\* mutant of Write: the byte is also stored in the image
Write_Through(data) ==
    /\ \E r \in {pico_disk_write(Pool, disk[current], data)} :
          Apply(r) /\ Called("write", data, r.ret)
    /\ flash' = IF disk[current].disk_loaded /\ disk[current].disk_pointer < disk[current].disk_size
                THEN [flash EXCEPT ![disk[current].disk_image_flash][disk[current].disk_pointer + 1] = data]
                ELSE flash
    /\ UNCHANGED <<current, current_disk>>

Write(data) ==
    /\ \E r \in {pico_disk_write(Pool, disk[current], data)} :
          Apply(r) /\ Called("write", data, r.ret)
    /\ UNCHANGED <<current, current_disk, flash>>

Read ==
    /\ \E r \in pico_disk_read(Pool, disk[current], flash) :
          Apply(r) /\ Called("read", 0, r.ret)
    /\ UNCHANGED <<current, current_disk, flash>>

\* the calls as the SD controller serves them
SdApply(r) ==
    /\ sd_card' = r.C
    /\ sd_disk' = [sd_disk EXCEPT ![sd_current] = r.D]
    /\ sd_ret' = r.ret
    /\ UNCHANGED <<sd_current, sd_currentDisk>>

SdLoad(drive, path) ==
    IF drive >= MAX_DRIVES
    THEN sd_ret' = 0 /\ UNCHANGED <<sd_disk, sd_current, sd_currentDisk, sd_card>>
    ELSE \E r \in {esp32_sd_disk_load(sd_card, sd_disk[drive], path)} :
            /\ sd_card' = r.C
            /\ sd_disk' = [sd_disk EXCEPT ![drive] = r.D]
            /\ sd_ret' = r.ret
            /\ UNCHANGED <<sd_current, sd_currentDisk>>

SdSelect(drive) ==
    /\ sd_currentDisk' = SdSelectedDrive(drive)
    /\ sd_current' = SdSelectedDrive(drive)
    /\ sd_ret' = 0
    /\ UNCHANGED <<sd_disk, sd_card>>

SdStatus ==
    /\ sd_ret' = sd_disk[sd_current].status
    /\ UNCHANGED <<sd_disk, sd_current, sd_currentDisk, sd_card>>

SdFunction(control) ==
    \E r \in esp32_sd_disk_function(sd_card, sd_disk[sd_current], control) : SdApply(r)

SdSector ==
    \E r \in esp32_sd_disk_sector(sd_card, sd_disk[sd_current]) : SdApply(r)

SdWrite(data) ==
    \E r \in esp32_sd_disk_write(sd_card, sd_disk[sd_current], data) : SdApply(r)

SdRead ==
    \E r \in esp32_sd_disk_read(sd_card, sd_disk[sd_current]) : SdApply(r)

\* the SD controller is not called
SdIdle == UNCHANGED sdVars

(***************************************************************************)
(* Spec: the environment makes any MaxCalls calls.                         *)
(***************************************************************************)
Free == script.phase = "free" /\ calls < MaxCalls /\ UNCHANGED script /\ SdIdle

FreeLoad == Free /\ \E d \in LoadDrives, im \in ImageIds : Load(d, im)
FreeSelect == Free /\ \E d \in SelectBytes : Select(d)
FreeStatus == Free /\ Status
FreeFunction == Free /\ \E c \in ControlBytes : Function(c)
FreeSector == Free /\ Sector
FreeWrite == Free /\ \E b \in DataBytes : Write(b)
FreeRead == Free /\ Read

Next ==
    \/ FreeLoad
    \/ FreeSelect
    \/ FreeStatus
    \/ FreeFunction
    \/ FreeSector
    \/ FreeWrite
    \/ FreeRead

Spec == Init /\ [][Next]_vars

(***************************************************************************)
(* SpecSectorIO: one program that writes a run of bytes to a sector and    *)
(* reads the sector back.                                                  *)
(*   boot: the host loads image 1 in drive 0;                              *)
(*   pre:  before positioning, the program reads one byte, or writes up to *)
(*         PreWrites bytes, at the place the load left the head, or does   *)
(*         neither;                                                        *)
(*   pos:  1..PosMax sector() calls position the drive; WRITE_ENABLE may   *)
(*         follow;                                                         *)
(*   write: n <= WriteMax consecutive write() calls;                       *)
(*   adv:  SECTORS_PER_TRACK sector() calls bring the same sector back;    *)
(*   read: up to SECTOR_SIZE consecutive read() calls.                     *)
(* The k-th byte written is WData(k): no handler looks at the data, and    *)
(* neighbouring bytes differ, so a byte read back tells its place.         *)
(***************************************************************************)
PreWrites == 2
PosMax == 3
WriteMax == 139

WData(k) == 201 + ((k - 1) % 55)

\* what read() streams from the place drive D is positioned at: its patch, else
\* the image, else zeros
SectorContent(P, D, F) == SubSeq(LoadedBuffer(P, D, F), 1, SECTOR_SIZE)

InitSectorIO ==
    /\ disk = [d \in Drives |-> InitDrive]
    /\ current = 0
    /\ current_disk = 0
    /\ g_patch_pool = [s \in {} |-> InitSlot]
    /\ g_patch_pool_next_free = 0
    /\ g_patch_pool_used = 0
    /\ g_patch_pool_exhausted = FALSE
    /\ g_log = 0
    /\ flash = [id \in ImageIds |-> ImageOf(id)]
    /\ SdInit
    /\ op = "init" /\ arg = 0 /\ ret = 0
    /\ run = [op |-> "init", n |-> 1, prevOp |-> "init", prevArg |-> 0]
    /\ calls = 0
    /\ script = [phase |-> "boot", pre |-> 0, pos |-> 0, armed |-> FALSE,
                 n |-> 0, adv |-> 0, k |-> 0, ws0 |-> 0, prior |-> <<>>]

SioLoad ==
    /\ script.phase = "boot"
    /\ Load(0, 1)
    /\ SdIdle
    /\ script' = [script EXCEPT !.phase = "pre"]

SioPreRead ==
    /\ script.phase = "pre" /\ script.pre = 0
    /\ Read
    /\ SdIdle
    /\ script' = [script EXCEPT !.pre = -1]

SioPreWrite ==
    /\ script.phase = "pre" /\ script.pre \in 0..(PreWrites - 1)
    /\ Write(WData(SECTOR_SIZE - script.pre))
    /\ SdIdle
    /\ script' = [script EXCEPT !.pre = @ + 1]

SioPosition ==
    /\ \/ script.phase = "pre"
       \/ script.phase = "pos" /\ script.pos < PosMax /\ ~script.armed
    /\ Sector
    /\ SdIdle
    /\ script' = [script EXCEPT !.phase = "pos", !.pos = @ + 1]

SioArm ==
    /\ script.phase = "pos" /\ ~script.armed
    /\ Function(CONTROL_WE)
    /\ SdIdle
    /\ script' = [script EXCEPT !.armed = TRUE]

SioWrite ==
    /\ \/ script.phase = "pos"
       \/ script.phase = "write" /\ script.n < WriteMax
    /\ Write(WData(script.n + 1))
    /\ SdIdle
    /\ script' = IF script.phase = "pos"
                 THEN [script EXCEPT !.phase = "write", !.n = 1,
                                     !.ws0 = disk[current].write_status,
                                     !.prior = SectorContent(Pool, disk[current], flash)]
                 ELSE [script EXCEPT !.n = @ + 1]

SioAdvance ==
    /\ \/ script.phase = "write"
       \/ script.phase = "adv" /\ script.adv < SECTORS_PER_TRACK
    /\ Sector
    /\ SdIdle
    /\ script' = [script EXCEPT !.phase = "adv", !.adv = @ + 1]

SioRead ==
    /\ \/ script.phase = "pos"
       \/ script.phase = "adv" /\ script.adv = SECTORS_PER_TRACK
       \/ script.phase = "read" /\ script.k < SECTOR_SIZE
    /\ Read
    /\ SdIdle
    /\ script' = [script EXCEPT !.phase = "read", !.k = @ + 1]

NextSectorIO ==
    \/ SioLoad
    \/ SioPreRead
    \/ SioPreWrite
    \/ SioPosition
    \/ SioArm
    \/ SioWrite
    \/ SioAdvance
    \/ SioRead

SpecSectorIO == InitSectorIO /\ [][NextSectorIO]_vars

(***************************************************************************)
(* Claims checked under SpecSectorIO.                                      *)
(***************************************************************************)
\* the selected drive
Cur == disk[current]

\* the live patches drive D holds for sector_index: the slots on its chains that
\* carry that index
PatchesOf(D, sector_index) ==
    {s \in DriveSlots(Pool, D) : SlotAt(g_patch_pool, s).index = sector_index}

\* the run of writes the last call belongs to began right after WRITE_ENABLE
WritesSinceEnable ==
    /\ run.op = "write"
    /\ run.prevOp = "function"
    /\ BitAnd(run.prevArg, CONTROL_WE) # 0
    /\ Cur.disk_loaded

\* C1: after WRITE_ENABLE on a loaded drive, the 137th consecutive write() has
\* flushed the sector buffer to the patch store, reset write_counter to 0 and
\* deasserted ENWD (status bit 0 is 1).
C1_FlushOn137thStore ==
    (WritesSinceEnable /\ run.n = SECTOR_SIZE)
        => /\ Cur.write_status = 0
           /\ BitAnd(Cur.status, STATUS_ENWD) = STATUS_ENWD
           /\ ~Cur.sector_dirty
           /\ PatchesOf(Cur, FlushIndex(Cur)) # {}

\* the program has written script.n bytes to a sector inside the image, has brought
\* the sector back with sector() calls and has read script.k bytes of it
ReadBack ==
    /\ script.phase = "read"
    /\ script.n >= 1
    /\ script.k >= 1
    /\ InsideImage(Cur)

\* C2 as claimed: for every N in 1..137 and every sector inside the image, after
\* N bytes are written from the start of the sector and sector() has brought the
\* sector back, the first N read() calls return the N bytes written, in order.
C2_RoundTrip ==
    (ReadBack /\ script.n <= SECTOR_SIZE /\ script.k <= script.n)
        => ret = WData(script.k)

\* C2 as amended: the same, provided write_counter was at most 138 - N when the
\* first of the N bytes was written (as it is after WRITE_ENABLE or a load) and
\* no patch allocation has failed.
C2_RoundTripCounterLow ==
    (/\ ReadBack /\ script.n <= SECTOR_SIZE /\ script.k <= script.n
     /\ script.ws0 + script.n <= SECTOR_SIZE + 1
     /\ ~g_patch_pool_exhausted)
        => ret = WData(script.k)

\* C2's case: a whole sector written with WRITE_ENABLE left out, and read back whole
C2_Witness ==
    /\ ReadBack
    /\ script.n = SECTOR_SIZE /\ script.k = SECTOR_SIZE
    /\ script.ws0 = 1 /\ ~script.armed
    /\ ret = WData(SECTOR_SIZE)

\* C3: after sector() has positioned the selected drive at a sector inside the
\* image, the k-th of the following read() calls (k <= 137) returns byte k of the
\* sector's live patch when there is one, and byte k of the base image at
\* image_position when there is none.
C3_ReadStreamsPatchElseImage ==
    (/\ run.op = "read" /\ run.prevOp = "sector" /\ run.n <= SECTOR_SIZE
     /\ Cur.disk_loaded /\ InsideImage(Cur))
        => \/ /\ PatchesOf(Cur, FlushIndex(Cur)) = {}
              /\ ret = flash[Cur.disk_image_flash][Cur.disk_pointer + run.n]
           \/ /\ PatchesOf(Cur, FlushIndex(Cur)) # {}
              /\ \A s \in PatchesOf(Cur, FlushIndex(Cur)) :
                    ret = SlotAt(g_patch_pool, s).data[run.n]

\* C3's case: the last byte of a patched sector streamed, the patch differing from
\* the image there
C3_Witness ==
    /\ run.op = "read" /\ run.prevOp = "sector" /\ run.n = SECTOR_SIZE
    /\ InsideImage(Cur)
    /\ PatchesOf(Cur, FlushIndex(Cur)) # {}
    /\ ret # flash[Cur.disk_image_flash][Cur.disk_pointer + run.n]
    /\ Cur.disk_pointer = SECTOR_SIZE

\* C5: after a partial write of N < 137 bytes from the start of a sector has been
\* flushed, bytes N..136 read back are the bytes the sector held before the write
\* (base image or earlier patch) or zeros.
C5_TailIsPriorOrZero ==
    (/\ script.phase = "read" /\ script.n \in 1..(SECTOR_SIZE - 1)
     /\ script.k > script.n)
        => ret \in {script.prior[script.k], 0}

\* C7: every sector() call on a loaded drive returns 0xC0 | (s << 1), s in 0..31
\* being the sector just positioned: bits 7 and 6 set, bits 5..1 = s, bit 0 clear,
\* whatever reads or writes came before.
C7_SectorByte ==
    (op = "sector" /\ Cur.disk_loaded)
        => /\ Cur.disk_pointer =
                Cur.track * TRACK_SIZE + (Cur.sector - 1) * SECTOR_SIZE
           /\ Cur.sector - 1 \in 0..(SECTORS_PER_TRACK - 1)
           /\ ret = 192 + 2 * (Cur.sector - 1)

\* C7's case: sector 5 reported as 0xCA after bytes were written to another sector
C7_Witness ==
    /\ op = "sector" /\ Cur.disk_loaded
    /\ script.n >= 1
    /\ Cur.sector - 1 = 5
    /\ ret = 202

(***************************************************************************)
(* More claims checked under SpecSectorIO.                                 *)
(***************************************************************************)
\* the program reads a sector that is not wholly inside the image, after it
\* wrote script.n bytes to it (none when it reads right after positioning)
ReadOutside ==
    /\ script.phase = "read"
    /\ script.k >= 1
    /\ ~InsideImage(Cur)

\* C19: for a sector not wholly inside the image, every read() after sector()
\* returns 0x00, also after bytes written to the sector were flushed; and that
\* flush did allocate a patch slot for the sector.
C19_OutsideImageReadsZero ==
    ReadOutside =>
        /\ ret = 0
        /\ script.n >= 1 =>
              /\ PatchesOf(Cur, FlushIndex(Cur)) # {}
              /\ g_patch_pool_used >= 1

\* a whole sector was written past the end of the image, brought back and read
\* whole: the patch holds the bytes written and the reads returned zeros
C19_Witness ==
    /\ ReadOutside
    /\ script.pos = 3 /\ script.n = SECTOR_SIZE /\ script.k = SECTOR_SIZE
    /\ script.ws0 = 0
    /\ ret = 0
    /\ \E s \in PatchesOf(Cur, FlushIndex(Cur)) :
          /\ SlotAt(g_patch_pool, s).data[1] = WData(1)
          /\ SlotAt(g_patch_pool, s).data[SECTOR_SIZE] = WData(SECTOR_SIZE)


(***************************************************************************)
(* SpecSeek: one program that moves the head and watches the sectors pass, *)
(* served by the flash controller and by the SD controller alike.          *)
(*   boot: the host loads image 1 in drive 0;                              *)
(*   in:   up to MAX_TRACKS - 1 + OverSteps STEP_IN commands;              *)
(*   out:  then as many STEP_OUT commands as there were STEP_INs, at most; *)
(*   spin: at any point after the load, up to SECTORS_PER_TRACK + 1 +      *)
(*         OverSpin consecutive sector() calls end the program.            *)
(* script.track0 is the track the head was on when the spin began.         *)
(***************************************************************************)
OverSteps == 1
OverSpin == 1

InitSeek ==
    /\ disk = [d \in Drives |-> InitDrive]
    /\ current = 0
    /\ current_disk = 0
    /\ g_patch_pool = [s \in {} |-> InitSlot]
    /\ g_patch_pool_next_free = 0
    /\ g_patch_pool_used = 0
    /\ g_patch_pool_exhausted = FALSE
    /\ g_log = 0
    /\ flash = [id \in ImageIds |-> ImageOf(id)]
    /\ SdInit
    /\ op = "init" /\ arg = 0 /\ ret = 0
    /\ run = [op |-> "init", n |-> 1, prevOp |-> "init", prevArg |-> 0]
    /\ calls = 0
    /\ script = [phase |-> "boot", ins |-> 0, outs |-> 0, spins |-> 0, track0 |-> 0]

SeekLoad ==
    /\ script.phase = "boot"
    /\ Load(0, 1) /\ SdLoad(0, 1)
    /\ script' = [script EXCEPT !.phase = "in"]

SeekStepIn ==
    /\ script.phase = "in" /\ script.ins < MAX_TRACKS - 1 + OverSteps
    /\ Function(CONTROL_STEP_IN) /\ SdFunction(CONTROL_STEP_IN)
    /\ script' = [script EXCEPT !.ins = @ + 1]

SeekStepOut ==
    /\ script.phase \in {"in", "out"} /\ script.outs < script.ins
    /\ Function(CONTROL_STEP_OUT) /\ SdFunction(CONTROL_STEP_OUT)
    /\ script' = [script EXCEPT !.phase = "out", !.outs = @ + 1]

SeekSpin ==
    /\ \/ script.phase \in {"in", "out"}
       \/ script.phase = "spin" /\ script.spins < SECTORS_PER_TRACK + 1 + OverSpin
    /\ Sector /\ SdSector
    /\ script' = IF script.phase = "spin"
                 THEN [script EXCEPT !.spins = @ + 1]
                 ELSE [script EXCEPT !.phase = "spin", !.spins = 1,
                                     !.track0 = disk[current].track]

NextSeek ==
    \/ SeekLoad
    \/ SeekStepIn
    \/ SeekStepOut
    \/ SeekSpin

SpecSeek == InitSeek /\ [][NextSeek]_vars

(***************************************************************************)
(* Claims checked under SpecSeek.                                          *)
(***************************************************************************)
\* the drive the SD controller has selected
SdCur == sd_disk[sd_current]

\* where a drive stands: its track and the TRACK_0 bit of its status register
Stands(D, track, bit) ==
    D.track = track /\ BitAnd(D.status, STATUS_TRACK_0) = bit

\* C6: on a loaded drive positioned at sector 0 by a load or a step, the
\* first 32 consecutive sector() calls report sectors 0, 1, ..., 31 in order
\* and the 33rd reports sector 0 again; the track is what it was when the
\* calls began.
C6_SectorsInOrder ==
    (script.phase = "spin" /\ script.spins <= SECTORS_PER_TRACK + 1) =>
        /\ (ret - 192) \div 2 = (script.spins - 1) % SECTORS_PER_TRACK
        /\ ret >= 192
        /\ Cur.track = script.track0
        /\ (sd_ret - 192) \div 2 = (script.spins - 1) % SECTORS_PER_TRACK
        /\ sd_ret >= 192
        /\ SdCur.track = script.track0

\* the 33rd sector() call after steps left the head on track 3 reports sector 0
C6_Witness ==
    /\ script.phase = "spin" /\ script.spins = SECTORS_PER_TRACK + 1
    /\ script.ins = 5 /\ script.outs = 2
    /\ Cur.track = 3 /\ SdCur.track = 3
    /\ ret = 192 /\ sd_ret = 192

\* C8: from track 0, K STEP_IN commands followed by K STEP_OUT commands, for
\* 1 <= K <= 76, end on track 0; the TRACK_0 bit of the status register is 0
\* before the first STEP_IN, 1 from the first STEP_IN until the last STEP_OUT,
\* and 0 after the last STEP_OUT: it changes once each way.
C8_StepInStepOut ==
    /\ (script.phase = "in" /\ script.ins = 0) =>
          Stands(Cur, 0, 0) /\ Stands(SdCur, 0, 0)
    /\ (script.phase = "in" /\ script.ins \in 1..(MAX_TRACKS - 1)) =>
          Stands(Cur, script.ins, STATUS_TRACK_0) /\ Stands(SdCur, script.ins, STATUS_TRACK_0)
    /\ (script.phase = "out" /\ script.ins \in 1..(MAX_TRACKS - 1)) =>
          /\ Stands(Cur, script.ins - script.outs,
                    IF script.outs = script.ins THEN 0 ELSE STATUS_TRACK_0)
          /\ Stands(SdCur, script.ins - script.outs,
                    IF script.outs = script.ins THEN 0 ELSE STATUS_TRACK_0)

\* 76 steps in and 76 steps out have brought the head back to track 0
C8_Witness ==
    /\ script.phase = "out"
    /\ script.ins = MAX_TRACKS - 1 /\ script.outs = MAX_TRACKS - 1
    /\ op = "function" /\ arg = CONTROL_STEP_OUT
    /\ Stands(Cur, 0, 0)
    /\ Stands(SdCur, 0, 0)

(***************************************************************************)
(* SpecSelect: the environment makes any SelectCalls calls; WideSelects of *)
(* them may be a select of any byte.                                       *)
(***************************************************************************)
SelectCalls == 3
WideSelects == 1

InitSelect ==
    /\ disk = [d \in Drives |-> InitDrive]
    /\ current = 0
    /\ current_disk = 0
    /\ g_patch_pool = [s \in {} |-> InitSlot]
    /\ g_patch_pool_next_free = 0
    /\ g_patch_pool_used = 0
    /\ g_patch_pool_exhausted = FALSE
    /\ g_log = 0
    /\ flash = [id \in ImageIds |-> ImageOf(id)]
    /\ SdInit
    /\ op = "init" /\ arg = 0 /\ ret = 0
    /\ run = [op |-> "init", n |-> 1, prevOp |-> "init", prevArg |-> 0]
    /\ calls = 0
    /\ script = [phase |-> "select", wide |-> 0]

SelCall == script.phase = "select" /\ calls < SelectCalls /\ UNCHANGED script /\ SdIdle

SelWide ==
    /\ script.phase = "select" /\ calls < SelectCalls /\ script.wide < WideSelects
    /\ \E d \in 0..(UINT8 - 1) : Select(d)
    /\ script' = [script EXCEPT !.wide = @ + 1]
    /\ SdIdle

SelLoad == SelCall /\ \E d \in LoadDrives, im \in ImageIds : Load(d, im)
SelSelect == SelCall /\ \E d \in SelectBytes : Select(d)
SelStatus == SelCall /\ Status
SelFunction == SelCall /\ \E c \in ControlBytes : Function(c)
SelSector == SelCall /\ Sector
SelWrite == SelCall /\ \E b \in DataBytes : Write(b)
SelRead == SelCall /\ Read

NextSelect ==
    \/ SelWide
    \/ SelLoad
    \/ SelSelect
    \/ SelStatus
    \/ SelFunction
    \/ SelSector
    \/ SelWrite
    \/ SelRead

SpecSelect == InitSelect /\ [][NextSelect]_vars

(***************************************************************************)
(* Claim checked under SpecSelect.                                         *)
(***************************************************************************)
\* C9: select(d) makes the current drive d AND 0x0F when that is below 4 and
\* drive 0 otherwise; after every call the current drive number is below 4 and
\* the current-drive pointer designates the drive of that number.
C9_SelectInRange ==
    /\ current_disk \in 0..(MAX_DRIVES - 1)
    /\ current = current_disk
    /\ op = "select" =>
          current_disk = (IF arg % 16 < 4 THEN arg % 16 ELSE 0)

\* a second select in a row, select(0xF5), has selected drive 0
C9_Witness ==
    /\ op = "select" /\ arg = 245 /\ run.n = 2
    /\ current_disk = 0 /\ current = 0

(***************************************************************************)
(* Claim checked under Spec.                                               *)
(***************************************************************************)
\* C10: while the selected drive is not loaded, sector() returns 0xC0, read()
\* returns 0x00, status() returns STATUS_DEFAULT, and write(b) and
\* function(ctl), like the others, change no drive and no pool state.
C10_UnloadedIsInert ==
    [][ (~Cur.disk_loaded /\ op' \in {"sector", "read", "write", "function", "status"}) =>
          /\ disk' = disk
          /\ poolVars' = poolVars
          /\ op' = "sector" => ret' = 192
          /\ op' = "read" => ret' = 0
          /\ op' = "status" => ret' = STATUS_DEFAULT ]_vars

\* a write() arrived at an unloaded drive while another drive held a patch
C10_Witness ==
    /\ op = "write" /\ run.prevOp = "select"
    /\ ~Cur.disk_loaded
    /\ g_patch_pool_used > 0
    /\ ~Cur.sector_dirty

(***************************************************************************)
(* SpecPair: the environment makes any PairCalls calls, each served by the *)
(* flash controller and by the SD controller.                              *)
(***************************************************************************)
PairCalls == 4

InitPair ==
    /\ disk = [d \in Drives |-> InitDrive]
    /\ current = 0
    /\ current_disk = 0
    /\ g_patch_pool = [s \in {} |-> InitSlot]
    /\ g_patch_pool_next_free = 0
    /\ g_patch_pool_used = 0
    /\ g_patch_pool_exhausted = FALSE
    /\ g_log = 0
    /\ flash = [id \in ImageIds |-> ImageOf(id)]
    /\ SdInit
    /\ op = "init" /\ arg = 0 /\ ret = 0
    /\ run = [op |-> "init", n |-> 1, prevOp |-> "init", prevArg |-> 0]
    /\ calls = 0
    /\ script = [phase |-> "pair"]

Pair == script.phase = "pair" /\ calls < PairCalls /\ UNCHANGED script

PairLoad ==
    /\ Pair
    /\ \E d \in LoadDrives, im \in ImageIds :
          \E path \in {im, NoSuchFile} : Load(d, im) /\ SdLoad(d, path)
PairSelect == Pair /\ \E d \in SelectBytes : Select(d) /\ SdSelect(d)
PairStatus == Pair /\ Status /\ SdStatus
PairFunction == Pair /\ \E c \in ControlBytes : Function(c) /\ SdFunction(c)
PairSector == Pair /\ Sector /\ SdSector
PairWrite == Pair /\ \E b \in DataBytes : Write(b) /\ SdWrite(b)
PairRead == Pair /\ Read /\ SdRead

NextPair ==
    \/ PairLoad
    \/ PairSelect
    \/ PairStatus
    \/ PairFunction
    \/ PairSector
    \/ PairWrite
    \/ PairRead

SpecPair == InitPair /\ [][NextPair]_vars

C20_FailedLoadCommitsNothing ==
    [][ op' = "load" =>
          /\ ret' = 0 => /\ disk' = disk
                         /\ poolVars' = poolVars
                         /\ current' = current /\ current_disk' = current_disk
          /\ sd_ret' = 0 => /\ sd_disk' = sd_disk
                            /\ sd_card' = sd_card
                            /\ sd_current' = sd_current
                            /\ sd_currentDisk' = sd_currentDisk ]_vars

(***************************************************************************)
(* SpecFunction: one program that, after up to MAX_TRACKS - 1 STEP_INs and *)
(* perhaps a read and a write, sends one control byte, any of the 256,     *)
(* served by the flash controller and by the SD controller alike.          *)
(* script.expect and script.sdExpect hold what the same drive would be had *)
(* the bits of that byte been sent one per call, in the order STEP_IN,     *)
(* STEP_OUT, HEAD_LOAD, HEAD_UNLOAD, WRITE_ENABLE.                         *)
(***************************************************************************)
\* function(bit) follows r = [P, D, ret] when control has the bit
OneBit(r, control, bit) ==
    IF BitAnd(control, bit) # 0 THEN pico_disk_function(r.P, r.D, bit) ELSE r

\* the bits of control, one call each, in the order of the claim
OneAtATime(P, D, control) ==
    OneBit(OneBit(OneBit(OneBit(OneBit([P |-> P, D |-> D, ret |-> 0],
        control, CONTROL_STEP_IN),
        control, CONTROL_STEP_OUT),
        control, CONTROL_HEAD_LOAD),
        control, CONTROL_HEAD_UNLOAD),
        control, CONTROL_WE)

\* the same for the SD controller, on the set R of outcomes [C, D, ret]
SdOneBit(R, control, bit) ==
    IF BitAnd(control, bit) # 0
    THEN UNION {esp32_sd_disk_function(r.C, r.D, bit) : r \in R}
    ELSE R

SdOneAtATime(C, D, control) ==
    SdOneBit(SdOneBit(SdOneBit(SdOneBit(SdOneBit({[C |-> C, D |-> D, ret |-> 0]},
        control, CONTROL_STEP_IN),
        control, CONTROL_STEP_OUT),
        control, CONTROL_HEAD_LOAD),
        control, CONTROL_HEAD_UNLOAD),
        control, CONTROL_WE)

InitFunction ==
    /\ disk = [d \in Drives |-> InitDrive]
    /\ current = 0
    /\ current_disk = 0
    /\ g_patch_pool = [s \in {} |-> InitSlot]
    /\ g_patch_pool_next_free = 0
    /\ g_patch_pool_used = 0
    /\ g_patch_pool_exhausted = FALSE
    /\ g_log = 0
    /\ flash = [id \in ImageIds |-> ImageOf(id)]
    /\ SdInit
    /\ op = "init" /\ arg = 0 /\ ret = 0
    /\ run = [op |-> "init", n |-> 1, prevOp |-> "init", prevArg |-> 0]
    /\ calls = 0
    /\ script = [phase |-> "boot", ins |-> 0, expect |-> <<>>, sdExpect |-> {}, sdSame |-> TRUE]

FunLoad ==
    /\ script.phase = "boot"
    /\ Load(0, 1) /\ SdLoad(0, 1)
    /\ script' = [script EXCEPT !.phase = "in"]

FunStepIn ==
    /\ script.phase = "in" /\ script.ins < MAX_TRACKS - 1
    /\ Function(CONTROL_STEP_IN) /\ SdFunction(CONTROL_STEP_IN)
    /\ script' = [script EXCEPT !.ins = @ + 1]

FunRead ==
    /\ script.phase = "in"
    /\ Read /\ SdRead
    /\ script' = [script EXCEPT !.phase = "read"]

FunWrite ==
    /\ script.phase \in {"in", "read"}
    /\ Write(201) /\ SdWrite(201)
    /\ script' = [script EXCEPT !.phase = "dirty"]

FunControl ==
    /\ script.phase \in {"in", "dirty"}
    /\ \E c \in 0..(UINT8 - 1) :
          /\ Function(c) /\ SdFunction(c)
          /\ script' = [script EXCEPT
                !.phase = "done",
                !.expect = OneAtATime(Pool, disk[current], c),
                !.sdExpect = SdOneAtATime(sd_card, sd_disk[sd_current], c),
                !.sdSame = (SdOneAtATime(sd_card, sd_disk[sd_current], c)
                              = esp32_sd_disk_function(sd_card, sd_disk[sd_current], c))]

NextFunction ==
    \/ FunLoad
    \/ FunStepIn
    \/ FunRead
    \/ FunWrite
    \/ FunControl

SpecFunction == InitFunction /\ [][NextFunction]_vars

(***************************************************************************)
(* Claims checked under SpecFunction.                                      *)
(***************************************************************************)
\* C11: one function(ctl) call with several control bits set leaves the drive,
\* the pool and the card as the calls function(bit), one per bit set, in the
\* order STEP_IN, STEP_OUT, HEAD_LOAD, HEAD_UNLOAD, WRITE_ENABLE would; so
\* HEAD_LOAD|HEAD_UNLOAD leaves the head unloaded with NRDA asserted, and
\* STEP_IN|STEP_OUT on track 76 ends on track 75.
C11_BitsInFixedOrder ==
    script.phase = "done" =>
        /\ Cur = script.expect.D
        /\ Pool = script.expect.P
        /\ script.sdSame
        /\ \E r \in script.sdExpect : r.D = SdCur /\ r.C = sd_card
        /\ (arg = 12 /\ script.ins = 0) =>
              /\ BitAnd(Cur.status, STATUS_HEAD) # 0 /\ BitAnd(Cur.status, STATUS_NRDA) = 0
              /\ BitAnd(SdCur.status, STATUS_HEAD) # 0 /\ BitAnd(SdCur.status, STATUS_NRDA) = 0
        /\ (arg = 3 /\ script.ins = MAX_TRACKS - 1) =>
              Cur.track = MAX_TRACKS - 2 /\ SdCur.track = MAX_TRACKS - 2

\* function(STEP_IN|STEP_OUT) was served on track 76 with a dirty buffer
C11_Witness ==
    /\ script.phase = "done" /\ op = "function" /\ arg = 3
    /\ script.ins = MAX_TRACKS - 1
    /\ run.prevOp = "write"
    /\ Cur.track = MAX_TRACKS - 2
    /\ g_patch_pool_used = 1
(***************************************************************************)
(* More claims checked under SpecFunction.                                 *)
(***************************************************************************)
\* the control byte without its IE, ID and HCS bits
WithoutOtherBits(control) ==
    BitAnd(control, (UINT8 - 1) - (CONTROL_IE + CONTROL_ID + CONTROL_HCS))

\* C26: function(ctl) with none but the IE, ID and HCS bits set changes nothing
\* of the controller, the drives or the pool; and with other bits set as well,
\* it does what function(ctl) without the three bits does.
C26_OtherBitsIgnored ==
    [][ (op' = "function" /\ script'.phase = "done") =>
          /\ \E r \in {pico_disk_function(Pool, Cur, WithoutOtherBits(arg'))} :
                /\ disk' = [disk EXCEPT ![current] = r.D]
                /\ Pool' = r.P
                /\ ret' = r.ret
          /\ current' = current /\ current_disk' = current_disk /\ flash' = flash
          /\ WithoutOtherBits(arg') = 0 => (disk' = disk /\ poolVars' = poolVars) ]_vars

\* function(IE|ID|HCS|STEP_OUT) was served on track 76 with a dirty buffer
C26_Witness ==
    /\ script.phase = "done" /\ op = "function"
    /\ arg = CONTROL_IE + CONTROL_ID + CONTROL_HCS + CONTROL_STEP_OUT
    /\ script.ins = MAX_TRACKS - 1
    /\ run.prevOp = "write"
    /\ Cur.track = MAX_TRACKS - 2
    /\ g_patch_pool_used = 1


(***************************************************************************)
(* SpecBoot: the boot loader ROM (disk_loader.h) on a freshly loaded       *)
(* drive 0: select(0), function(HEAD_LOAD), status() polls, a sector()     *)
(* poll, then read() calls, SECTOR_SIZE + BootOver at most.                *)
(***************************************************************************)
BootOver == 1
BootPolls == 2

InitBoot ==
    /\ disk = [d \in Drives |-> InitDrive]
    /\ current = 0
    /\ current_disk = 0
    /\ g_patch_pool = [s \in {} |-> InitSlot]
    /\ g_patch_pool_next_free = 0
    /\ g_patch_pool_used = 0
    /\ g_patch_pool_exhausted = FALSE
    /\ g_log = 0
    /\ flash = [id \in ImageIds |-> ImageOf(id)]
    /\ SdInit
    /\ op = "init" /\ arg = 0 /\ ret = 0
    /\ run = [op |-> "init", n |-> 1, prevOp |-> "init", prevArg |-> 0]
    /\ calls = 0
    /\ script = [phase |-> "boot", image |-> 0, polls |-> 0, k |-> 0]

BootLoad ==
    /\ script.phase = "boot"
    /\ \E im \in ImageIds :
          /\ Load(0, im)
          /\ script' = [script EXCEPT !.phase = "loaded", !.image = im]
    /\ SdIdle

BootSelect ==
    /\ script.phase = "loaded"
    /\ Select(0)
    /\ SdIdle
    /\ script' = [script EXCEPT !.phase = "selected"]

BootHeadLoad ==
    /\ script.phase = "selected"
    /\ Function(CONTROL_HEAD_LOAD)
    /\ SdIdle
    /\ script' = [script EXCEPT !.phase = "head"]

BootStatus ==
    /\ \/ script.phase = "head"
       \/ script.phase = "status" /\ script.polls < BootPolls
    /\ Status
    /\ SdIdle
    /\ script' = [script EXCEPT !.phase = "status", !.polls = @ + 1]

BootSector ==
    /\ script.phase = "status"
    /\ Sector
    /\ SdIdle
    /\ script' = [script EXCEPT !.phase = "sector"]

BootRead ==
    /\ \/ script.phase = "sector"
       \/ script.phase = "read" /\ script.k < SECTOR_SIZE + BootOver
    /\ Read
    /\ SdIdle
    /\ script' = [script EXCEPT !.phase = "read", !.k = @ + 1]

NextBoot ==
    \/ BootLoad
    \/ BootSelect
    \/ BootHeadLoad
    \/ BootStatus
    \/ BootSector
    \/ BootRead

SpecBoot == InitBoot /\ [][NextBoot]_vars

(***************************************************************************)
(* Claims checked under SpecBoot.                                          *)
(***************************************************************************)
\* C12 as claimed: on a freshly loaded drive 0, after select(0) and
\* function(0x04), status() returns 0b11100001.
C12_StatusAfterHeadLoad ==
    script.phase = "status" => ret = 225

\* C12 as amended: there status() returns 0b00100001: the load has asserted
\* TRACK_0 (bit 6 clear) and the head load HEAD and NRDA (bits 2 and 7 clear).
C12_StatusAfterHeadLoadIs21 ==
    script.phase = "status" => ret = 33

\* the first status() poll of the boot loader has returned
C12_Witness ==
    /\ script.phase = "status" /\ script.polls = 1
    /\ op = "status" /\ run.prevOp = "function" /\ run.prevArg = CONTROL_HEAD_LOAD
    /\ Cur.disk_loaded /\ current = 0
    /\ ret = 33

\* C13: on a freshly loaded drive 0, after select(0) and the head load, the
\* first status() poll has bit 2 clear, the first sector() poll returns 0xC0,
\* and the k-th of the following 137 read() calls returns byte k - 1 of the
\* image (an image that holds a whole first sector).
C13_BootNeverWaits ==
    /\ script.phase = "status" => BitAnd(ret, 4) = 0
    /\ script.phase = "sector" => ret = 192
    /\ (script.phase = "read" /\ script.k <= SECTOR_SIZE
          /\ ImageSize(script.image) >= SECTOR_SIZE) =>
          ret = ImageByte(script.image, script.k - 1)

\* the boot loader has read the 137th byte of the first sector
C13_Witness ==
    /\ script.phase = "read" /\ script.k = SECTOR_SIZE
    /\ script.polls = 1
    /\ ImageSize(script.image) >= SECTOR_SIZE
    /\ ret = ImageByte(script.image, SECTOR_SIZE - 1)

(***************************************************************************)
(* More claims checked under Spec.                                         *)
(***************************************************************************)
\* C14 as claimed: every drive is created unloaded with status 0b11100101, a
\* drive that was never loaded keeps that status, and status() on it returns
\* that byte.
C14_NeverLoadedIsDefault ==
    /\ calls = 0 => \A d \in Drives : ~disk[d].disk_loaded
    /\ \A d \in Drives : ~disk[d].disk_loaded => disk[d].status = 229
    /\ (op = "status" /\ ~Cur.disk_loaded) => ret = 229

\* C14 as amended: the same with the byte 0b11100111, which has the MOVE_HEAD
\* bit too.
C14_NeverLoadedIsE7 ==
    /\ calls = 0 => \A d \in Drives : ~disk[d].disk_loaded
    /\ \A d \in Drives : ~disk[d].disk_loaded => disk[d].status = 231
    /\ (op = "status" /\ ~Cur.disk_loaded) => ret = 231

\* status() has returned 0b11100111 for drive 1, never loaded, while drive 0,
\* loaded, shows another status
C14_Witness ==
    /\ op = "status" /\ ret = 231
    /\ current = 1 /\ ~disk[1].disk_loaded
    /\ disk[0].disk_loaded /\ disk[0].status # 231

\* drive D as a successful load leaves it
FreshlyLoaded(D) ==
    /\ D.disk_loaded
    /\ D.track = 0 /\ D.sector = 0
    /\ D.disk_pointer = 0 /\ D.sector_pointer = 0
    /\ D.write_status = 0
    /\ ~D.sector_dirty /\ ~D.have_sector_data
    /\ D.status = 165
    /\ D.status = STATUS_DEFAULT - STATUS_MOVE_HEAD - STATUS_TRACK_0

\* C15: right after a successful load(d, image), drive d is loaded, at track 0,
\* sector 0, image position 0, sector pointer 0, write counter 0, not dirty,
\* without valid sector data, its status being STATUS_DEFAULT with MOVE_HEAD,
\* TRACK_0 and SECTOR cleared, whatever the drive was before.
C15_LoadResets ==
    (op = "load" /\ ret = 1) => FreshlyLoaded(disk[arg])

\* a drive that had been stepped, written and flushed was loaded again
C15_Witness ==
    /\ op = "load" /\ ret = 1 /\ arg = current
    /\ g_patch_pool_next_free > 0 /\ g_patch_pool_used = 0
    /\ FreshlyLoaded(disk[arg])

\* after the call, the selected drive holds a patch for sector_index with the
\* first SECTOR_SIZE bytes of buffer
FiledUnder(sector_index, buffer) ==
    /\ find_patch_index(Pool', disk'[current], sector_index) # PATCH_INDEX_INVALID
    /\ SlotAt(g_patch_pool', find_patch_index(Pool', disk'[current], sector_index)).data
          = SubSeq(buffer, 1, SECTOR_SIZE)

\* after the call, the buffer of the selected drive is clean and invalid and
\* sector_pointer is 0
BufferReset ==
    /\ ~disk'[current].sector_dirty
    /\ ~disk'[current].have_sector_data
    /\ disk'[current].sector_pointer = 0

\* C29: a STEP_IN or STEP_OUT served while the sector buffer is dirty files the
\* buffer under the sector the drive stood at before the step (image_position
\* / 137) and then sets image_position = track * TRACK_SIZE, sector = 0,
\* sector_pointer = 0 and invalidates the buffer; sector() files the buffer in
\* the same way before it repositions.
C29_FlushBeforeReposition ==
    [][ (Cur.disk_loaded /\ Cur.sector_dirty /\ g_patch_pool_used < PATCH_POOL_SIZE) =>
          /\ (op' = "function" /\ BitAnd(arg', CONTROL_STEP_IN + CONTROL_STEP_OUT) # 0) =>
                /\ FiledUnder(FlushIndex(Cur), Cur.sector_data)
                /\ BufferReset
                /\ disk'[current].disk_pointer = disk'[current].track * TRACK_SIZE
                /\ disk'[current].sector = 0
          /\ op' = "sector" =>
                /\ FiledUnder(FlushIndex(Cur), Cur.sector_data)
                /\ BufferReset
                /\ disk'[current].disk_pointer =
                      Cur.track * TRACK_SIZE + WrapSector(Cur).sector * SECTOR_SIZE ]_vars

\* a byte written to sector 1 of track 0 was filed under sector 1 by the
\* STEP_IN that took the head to track 1
C29_Witness ==
    /\ op = "function" /\ arg = CONTROL_STEP_IN /\ run.prevOp = "write"
    /\ Cur.disk_loaded /\ Cur.track = 1 /\ Cur.disk_pointer = TRACK_SIZE
    /\ PatchesOf(Cur, 1) # {}
    /\ \E s \in PatchesOf(Cur, 1) : SlotAt(g_patch_pool, s).data[1] = run.prevArg
    /\ PatchesOf(Cur, SECTORS_PER_TRACK) = {}


(***************************************************************************)
(* SpecPool: one program that fills the patch pool.  The host loads image  *)
(* 1 in drive 0 and image 2 in drive 1.  The program writes one byte to    *)
(* sector after sector, track after track, each write flushed by the       *)
(* sector() or the STEP_IN that moves on; it may select drive 1 when       *)
(* SwitchPoints patches are live.  With the pool full it tries OverWrites  *)
(* more sectors, and may step out before any of them to go back over       *)
(* sectors written before.  The host may load a drive again when           *)
(* ReloadEarly patches are live or the pool is full; AfterWrites more      *)
(* sectors follow.                                                         *)
(* script.next is the call the program makes next; script.idx and          *)
(* script.fresh tell the sector index of the last write and whether the    *)
(* drive had no patch for it; script.freed counts the patches the drive    *)
(* loaded again held.                                                      *)
(***************************************************************************)
SwitchEarly == 1
ReloadEarly == 2
OverWrites == 2
AfterWrites == 2

SwitchPoints == {0, SwitchEarly, PATCH_POOL_SIZE - SwitchEarly, PATCH_POOL_SIZE}

InitPool ==
    /\ disk = [d \in Drives |-> InitDrive]
    /\ current = 0
    /\ current_disk = 0
    /\ g_patch_pool = [s \in {} |-> InitSlot]
    /\ g_patch_pool_next_free = 0
    /\ g_patch_pool_used = 0
    /\ g_patch_pool_exhausted = FALSE
    /\ g_log = 0
    /\ flash = [id \in ImageIds |-> ImageOf(id)]
    /\ SdInit
    /\ op = "init" /\ arg = 0 /\ ret = 0
    /\ run = [op |-> "init", n |-> 1, prevOp |-> "init", prevArg |-> 0]
    /\ calls = 0
    /\ script = [phase |-> "boot", next |-> "load", over |-> 0, after |-> 0,
                 freed |-> 0, fresh |-> FALSE, idx |-> 0]

PoolBoot ==
    /\ script.phase = "boot"
    /\ Load(0, 1)
    /\ SdIdle
    /\ script' = [script EXCEPT !.phase = "boot1"]

PoolBootB ==
    /\ script.phase = "boot1"
    /\ Load(1, 2)
    /\ SdIdle
    /\ script' = [script EXCEPT !.phase = "fill", !.next = "position"]

PoolSwitch ==
    /\ script.phase = "fill" /\ script.next \in {"position", "write"}
    /\ current = 0 /\ g_patch_pool_used \in SwitchPoints
    /\ Select(1)
    /\ SdIdle
    /\ script' = [script EXCEPT !.next = "position"]

PoolPosition ==
    /\ script.next = "position"
    /\ Sector
    /\ SdIdle
    /\ script' = [script EXCEPT !.next = "write"]

PoolWrite ==
    /\ script.next = "write"
    /\ \/ script.phase = "fill" /\ g_patch_pool_used < PATCH_POOL_SIZE
       \/ script.phase = "fill" /\ script.over < OverWrites
       \/ script.phase = "after" /\ script.after < AfterWrites
    /\ Write(WData(calls))
    /\ SdIdle
    /\ script' = [script EXCEPT
          !.next = IF disk[current].sector = SECTORS_PER_TRACK THEN "step" ELSE "flush",
          !.idx = FlushIndex(disk[current]),
          !.fresh = (find_patch_index(Pool, disk[current], FlushIndex(disk[current]))
                       = PATCH_INDEX_INVALID),
          !.over = IF script.phase = "fill" /\ g_patch_pool_used = PATCH_POOL_SIZE
                   THEN @ + 1 ELSE @,
          !.after = IF script.phase = "after" THEN @ + 1 ELSE @]

PoolFlush ==
    /\ script.next = "flush"
    /\ Sector
    /\ SdIdle
    /\ script' = [script EXCEPT !.next = "write"]

PoolStep ==
    /\ script.next = "step"
    /\ Function(CONTROL_STEP_IN)
    /\ SdIdle
    /\ script' = [script EXCEPT !.next = "position"]

PoolRewind ==
    /\ script.phase = "fill" /\ script.next = "write"
    /\ g_patch_pool_used = PATCH_POOL_SIZE /\ script.over < OverWrites
    /\ op # "function"
    /\ Function(CONTROL_STEP_OUT)
    /\ SdIdle
    /\ UNCHANGED script

PoolReload ==
    /\ script.phase = "fill" /\ script.next = "write"
    /\ g_patch_pool_used \in {ReloadEarly, PATCH_POOL_SIZE}
    /\ \E d \in {0, 1} :
          /\ Load(d, d + 1)
          /\ script' = [script EXCEPT
                !.phase = "after",
                !.freed = Cardinality(DriveSlots(Pool, disk[d])),
                !.next = IF d = current THEN "position" ELSE "write"]
    /\ SdIdle

NextPool ==
    \/ PoolBoot
    \/ PoolBootB
    \/ PoolSwitch
    \/ PoolPosition
    \/ PoolWrite
    \/ PoolFlush
    \/ PoolStep
    \/ PoolRewind
    \/ PoolReload

SpecPool == InitPool /\ [][NextPool]_vars

(***************************************************************************)
(* Claims checked under SpecPool.                                          *)
(***************************************************************************)
\* slot s of a pool holds a live patch
LiveIn(slot, s) == SlotAt(slot, s).index # PATCH_INDEX_INVALID

\* the slots that hold the live patches of drive D: those found under their
\* own sector index from the drive's buckets
Owned(D) ==
    {s \in DOMAIN g_patch_pool :
        /\ LiveIn(g_patch_pool, s)
        /\ find_patch_index(Pool, D, g_patch_pool[s].index) = s}

\* what a load of a drive that owned the slots of owned does to the others
LoadSpares(owned, d) ==
    /\ \A s \in Slots : LiveIn(g_patch_pool', s) <=> (LiveIn(g_patch_pool, s) /\ s \notin owned)
    /\ \A s \in Slots \ owned : SlotAt(g_patch_pool', s) = SlotAt(g_patch_pool, s)
    /\ g_patch_pool_used' = g_patch_pool_used - Cardinality(owned)
    /\ \A e \in Drives \ {d} : disk'[e] = disk[e]
    /\ current' = current /\ current_disk' = current_disk

\* C16: a load(d, image) frees exactly the slots that held live patches of
\* drive d; every other slot, every other drive (its patches, position and
\* status) and the drive selection are as before.
C16_LoadFreesOwnPatchesOnly ==
    [][ (op' = "load" /\ ret' = 1) => LoadSpares(Owned(disk[arg']), arg') ]_vars

\* a drive that held one patch was loaded again while the other held 255
C16_Witness ==
    /\ op = "load" /\ script.phase = "after"
    /\ script.freed = 1
    /\ g_patch_pool_used = PATCH_POOL_SIZE - 1
    /\ Owned(disk[arg]) = {}
    /\ Cardinality(Owned(disk[1 - arg])) = PATCH_POOL_SIZE - 1

\* the call about to be served flushes the selected drive's dirty buffer
Flushing ==
    /\ Cur.disk_loaded /\ Cur.sector_dirty
    /\ \/ op' = "sector"
       \/ op' = "function" /\ BitAnd(arg', CONTROL_STEP_IN + CONTROL_STEP_OUT) # 0

\* C17: with all 256 slots live, the flush of a dirty sector the drive has no
\* patch for allocates nothing: the bytes written are dropped, no slot and no
\* bucket of any drive changes, 256 slots stay in use, and the call returns as
\* it always does.
C17_FullPoolDropsWrite ==
    [][ (/\ Flushing
         /\ g_patch_pool_used = PATCH_POOL_SIZE
         /\ find_patch_index(Pool, Cur, FlushIndex(Cur)) = PATCH_INDEX_INVALID) =>
          /\ g_patch_pool' = g_patch_pool
          /\ g_patch_pool_used' = PATCH_POOL_SIZE
          /\ g_patch_pool_next_free' = g_patch_pool_next_free
          /\ \A d \in Drives : disk'[d].patch_hash = disk[d].patch_hash
          /\ ~disk'[current].sector_dirty
          /\ find_patch_index(Pool, Cur, FlushIndex(Cur))' = PATCH_INDEX_INVALID
          /\ op' = "sector" => (ret' \in 192..255 /\ disk'[current].status = Cur.status)
          /\ op' = "function" => ret' = 0 ]_vars

\* a write to a sector without a patch was flushed against the full pool
C17_Witness ==
    /\ script.phase = "fill" /\ script.over = 1 /\ script.fresh
    /\ script.next \in {"write", "position"}
    /\ op \in {"sector", "function"} /\ run.prevOp = "write"
    /\ g_patch_pool_used = PATCH_POOL_SIZE
    /\ g_patch_pool_exhausted /\ g_log = 1
    /\ ~Cur.sector_dirty
    /\ find_patch_index(Pool, Cur, script.idx) = PATCH_INDEX_INVALID

\* the first write after the load that followed the exhaustion has been flushed
FlushedAfterClear ==
    /\ script.phase = "after" /\ script.over >= 1 /\ script.after = 1
    /\ script.next \in {"write", "position"}
    /\ op \in {"sector", "function"} /\ run.prevOp = "write"
    /\ script.fresh

\* C18 as claimed: after the pool was exhausted, once any drive is cleared, a
\* following write to a sector without a patch gets a patch.
C18_ClearAnyDriveFrees ==
    FlushedAfterClear => find_patch_index(Pool, Cur, script.idx) # PATCH_INDEX_INVALID

\* C18 as amended: the same once a drive that held at least one live patch is
\* cleared; the patch holds the byte written.
C18_ClearOwnerFrees ==
    (FlushedAfterClear /\ script.freed >= 1) =>
        /\ find_patch_index(Pool, Cur, script.idx) # PATCH_INDEX_INVALID
        /\ SlotAt(g_patch_pool, find_patch_index(Pool, Cur, script.idx)).data[1] = run.prevArg

\* after the exhaustion drive 0, holding one patch, was loaded again, and the
\* next write on drive 1 got the slot
C18_Witness ==
    /\ FlushedAfterClear
    /\ script.freed = 1 /\ current = 1
    /\ g_patch_pool_used = PATCH_POOL_SIZE
    /\ find_patch_index(Pool, Cur, script.idx) # PATCH_INDEX_INVALID

(***************************************************************************)
(* SpecRuns: one program that, after the host loaded image 1 in drive 0,   *)
(* makes up to MaxRuns runs of calls, each run one call repeated: up to    *)
(* RunSteps STEP_INs, RunStepsOut STEP_OUTs, RunSectors sector()s,         *)
(* RunWrites write()s or RunReads read()s, one WRITE_ENABLE, one status()  *)
(* or one more load.  The program ends with the first read() that fetches  *)
(* from outside the sector buffer.  script.kind and script.n tell the run  *)
(* in progress and its length, script.runs the number of runs begun, and   *)
(* script.index the place in the sector buffer the last write() or read()  *)
(* used (-1 when it used none).                                            *)
(***************************************************************************)
MaxRuns == 2
RunSteps == 78
RunStepsOut == 2
RunSectors == 34
RunWrites == 140
RunReads == 140

InitRuns ==
    /\ disk = [d \in Drives |-> InitDrive]
    /\ current = 0
    /\ current_disk = 0
    /\ g_patch_pool = [s \in {} |-> InitSlot]
    /\ g_patch_pool_next_free = 0
    /\ g_patch_pool_used = 0
    /\ g_patch_pool_exhausted = FALSE
    /\ g_log = 0
    /\ flash = [id \in ImageIds |-> ImageOf(id)]
    /\ SdInit
    /\ op = "init" /\ arg = 0 /\ ret = 0
    /\ run = [op |-> "init", n |-> 1, prevOp |-> "init", prevArg |-> 0]
    /\ calls = 0
    /\ script = [phase |-> "boot", kind |-> "load", n |-> 0, runs |-> 0, index |-> -1]

\* the program may make one more call of the kind, at most limit in a row
MayRun(kind, limit) ==
    /\ script.phase = "run"
    /\ \/ script.kind = kind /\ script.n < limit
       \/ script.kind # kind /\ script.runs < MaxRuns

\* the script after a call of the kind that used the buffer at index
Ran(kind, index) ==
    script' = [script EXCEPT
                 !.kind = kind,
                 !.n = IF script.kind = kind THEN @ + 1 ELSE 1,
                 !.runs = IF script.kind = kind THEN @ ELSE @ + 1,
                 !.index = index,
                 !.phase = IF index >= BUFFER_SIZE THEN "end" ELSE @]

RunBoot ==
    /\ script.phase = "boot"
    /\ Load(0, 1)
    /\ SdIdle
    /\ script' = [script EXCEPT !.phase = "run"]

RunStepIn == MayRun("in", RunSteps) /\ Function(CONTROL_STEP_IN) /\ SdIdle /\ Ran("in", -1)

RunStepOut == MayRun("out", RunStepsOut) /\ Function(CONTROL_STEP_OUT) /\ SdIdle /\ Ran("out", -1)

RunSector == MayRun("sector", RunSectors) /\ Sector /\ SdIdle /\ Ran("sector", -1)

RunWrite ==
    /\ MayRun("write", RunWrites)
    /\ Write(WData(script.n + 1))
    /\ SdIdle
    /\ Ran("write", WriteIndex(disk[current]))

RunRead ==
    /\ MayRun("read", RunReads)
    /\ Read
    /\ SdIdle
    /\ Ran("read", FillBuffer(Pool, disk[current], flash).sector_pointer)

RunArm == MayRun("arm", 1) /\ Function(CONTROL_WE) /\ SdIdle /\ Ran("arm", -1)

RunStatus == MayRun("status", 1) /\ Status /\ SdIdle /\ Ran("status", -1)

RunLoad == MayRun("load", 1) /\ Load(0, 1) /\ SdIdle /\ Ran("load", -1)

NextRuns ==
    \/ RunBoot
    \/ RunStepIn
    \/ RunStepOut
    \/ RunSector
    \/ RunWrite
    \/ RunRead
    \/ RunArm
    \/ RunStatus
    \/ RunLoad

SpecRuns == InitRuns /\ [][NextRuns]_vars

(***************************************************************************)
(* Claims checked under SpecRuns.                                          *)
(***************************************************************************)
\* C21: after every call, every drive has track < 77, sector <= 32 and
\* write_counter <= 137.
C21_FieldsInRange ==
    \A d \in Drives :
        /\ disk[d].track < MAX_TRACKS
        /\ disk[d].sector <= SECTORS_PER_TRACK
        /\ disk[d].write_status <= SECTOR_SIZE

\* the head was stepped in as often as the program may, and the 137th write
\* that followed left the counter at its limit
C21_Witness ==
    /\ script.kind = "write" /\ script.n = SECTOR_SIZE
    /\ run.prevOp = "function" /\ run.prevArg = CONTROL_STEP_IN
    /\ Cur.track = MAX_TRACKS - 1
    /\ Cur.write_status = SECTOR_SIZE

\* C22: after every call, every drive has sector_pointer <= 138, whatever the
\* interleaving of read(), write(), function() and sector() calls.
C22_PointerInRange ==
    \A d \in Drives : disk[d].sector_pointer <= SECTOR_SIZE + 1

\* C30: every access write() or read() makes to the sector buffer uses an index
\* in 0..138, also in long runs of read() or write() calls with no sector()
\* call in between.
C30_AccessInsideBuffer ==
    script.kind \in {"write", "read"} => script.index \in 0 .. (BUFFER_SIZE - 1)

\* the last call was a STEP_IN or STEP_OUT, or a sector(), on a loaded drive
AfterSeek == Cur.disk_loaded /\ op = "function" /\ BitAnd(arg, CONTROL_STEP_IN + CONTROL_STEP_OUT) # 0
AfterSector == Cur.disk_loaded /\ op = "sector"

\* C23 as claimed: right after a seek_to_track and right after a sector() on a
\* loaded drive, image_position = track * 32 * 137 + sector * 137 with the
\* drive's track and sector at that moment.
C23_PositionIsTrackAndSector ==
    (AfterSeek \/ AfterSector) =>
        Cur.disk_pointer = Cur.track * SECTORS_PER_TRACK * SECTOR_SIZE + Cur.sector * SECTOR_SIZE

\* C23 as amended: right after a seek_to_track sector is 0 and image_position =
\* track * 32 * 137; right after a sector() the sector field is already one
\* ahead, in 1..32, and image_position = track * 32 * 137 + (sector - 1) * 137.
C23_PositionIsSectorReturned ==
    /\ AfterSeek =>
          /\ Cur.sector = 0
          /\ Cur.disk_pointer = Cur.track * SECTORS_PER_TRACK * SECTOR_SIZE
    /\ AfterSector =>
          /\ Cur.sector \in 1 .. SECTORS_PER_TRACK
          /\ Cur.disk_pointer = Cur.track * SECTORS_PER_TRACK * SECTOR_SIZE
                                  + (Cur.sector - 1) * SECTOR_SIZE

\* the last sector of the last track has come up
C23_Witness ==
    /\ AfterSector
    /\ script.kind = "sector" /\ script.n = SECTORS_PER_TRACK
    /\ Cur.track = MAX_TRACKS - 1 /\ Cur.sector = SECTORS_PER_TRACK
    /\ Cur.disk_pointer = (MAX_TRACKS - 1) * TRACK_SIZE + (SECTORS_PER_TRACK - 1) * SECTOR_SIZE

(***************************************************************************)
(* More claims checked under SpecPool.                                     *)
(***************************************************************************)
\* the slots of the pool that hold a live patch
LiveSlots == {s \in DOMAIN g_patch_pool : LiveIn(g_patch_pool, s)}

\* C24: after every call, the used count that pico_disk_get_patch_stats reports
\* is the number of slots whose index is not 0xFFFF, and is at most 256.
C24_UsedCountsLiveSlots ==
    /\ g_patch_pool_used = Cardinality(LiveSlots)
    /\ g_patch_pool_used <= PATCH_POOL_SIZE

\* allocations have failed on the full pool, and a load then freed patches
C24_Witness ==
    /\ script.phase = "after" /\ script.over = OverWrites
    /\ op = "load"
    /\ script.freed >= 2
    /\ g_patch_pool_used = PATCH_POOL_SIZE - script.freed
    /\ Cardinality(LiveSlots) = PATCH_POOL_SIZE - script.freed

(***************************************************************************)
(* SpecRearm: one program that enables writing in the middle of a sector.  *)
(* After the host loaded image 1 in drive 0 the program may call sector()  *)
(* once and may send WRITE_ENABLE; it writes up to RearmBefore bytes,      *)
(* sends WRITE_ENABLE, and writes up to RearmAfter bytes more.             *)
(* script.m and script.n count the bytes written before and after that     *)
(* WRITE_ENABLE.                                                           *)
(***************************************************************************)
RearmBefore == 138
RearmAfter == 139

InitRearm ==
    /\ disk = [d \in Drives |-> InitDrive]
    /\ current = 0
    /\ current_disk = 0
    /\ g_patch_pool = [s \in {} |-> InitSlot]
    /\ g_patch_pool_next_free = 0
    /\ g_patch_pool_used = 0
    /\ g_patch_pool_exhausted = FALSE
    /\ g_log = 0
    /\ flash = [id \in ImageIds |-> ImageOf(id)]
    /\ SdInit
    /\ op = "init" /\ arg = 0 /\ ret = 0
    /\ run = [op |-> "init", n |-> 1, prevOp |-> "init", prevArg |-> 0]
    /\ calls = 0
    /\ script = [phase |-> "boot", m |-> 0, n |-> 0]

RearmLoad ==
    /\ script.phase = "boot"
    /\ Load(0, 1)
    /\ SdIdle
    /\ script' = [script EXCEPT !.phase = "loaded"]

RearmPosition ==
    /\ script.phase = "loaded"
    /\ Sector
    /\ SdIdle
    /\ script' = [script EXCEPT !.phase = "placed"]

RearmFirst ==
    /\ script.phase \in {"loaded", "placed"}
    /\ Function(CONTROL_WE)
    /\ SdIdle
    /\ script' = [script EXCEPT !.phase = "before"]

RearmWriteBefore ==
    /\ script.phase \in {"loaded", "placed", "before"}
    /\ script.m < RearmBefore
    /\ Write(WData(script.m + 1))
    /\ SdIdle
    /\ script' = [script EXCEPT !.phase = "before", !.m = @ + 1]

RearmAgain ==
    /\ script.phase = "before"
    /\ Function(CONTROL_WE)
    /\ SdIdle
    /\ script' = [script EXCEPT !.phase = "armed"]

RearmWriteAfter ==
    /\ script.phase = "armed"
    /\ script.n < RearmAfter
    /\ Write(WData(script.m + script.n + 1))
    /\ SdIdle
    /\ script' = [script EXCEPT !.n = @ + 1]

NextRearm ==
    \/ RearmLoad
    \/ RearmPosition
    \/ RearmFirst
    \/ RearmWriteBefore
    \/ RearmAgain
    \/ RearmWriteAfter

SpecRearm == InitRearm /\ [][NextRearm]_vars

(***************************************************************************)
(* Claims checked under SpecRearm.                                         *)
(***************************************************************************)
\* ENWD is asserted on drive D (status bit 0 is 0)
WriteEnabled(D) == BitAnd(D.status, STATUS_ENWD) = 0

\* C25: WRITE_ENABLE sent after fewer than 137 stores sets write_counter to 0
\* and asserts ENWD, and leaves sector_pointer, the buffer and the dirty flag
\* as they were; none of the next 136 stores disarms: each leaves ENWD
\* asserted and write_counter at the number of stores since the WRITE_ENABLE.
C25_EnableRestartsCount ==
    [][ /\ (script'.phase = "armed" /\ script.phase = "before" /\ script.m < SECTOR_SIZE) =>
              /\ disk'[current].write_status = 0
              /\ WriteEnabled(disk'[current])
              /\ disk'[current].sector_pointer = Cur.sector_pointer
              /\ disk'[current].sector_data = Cur.sector_data
              /\ disk'[current].sector_dirty = Cur.sector_dirty
              /\ poolVars' = poolVars
        /\ (script.phase = "armed" /\ script.m < SECTOR_SIZE /\ script'.n \in 1 .. (SECTOR_SIZE - 1)) =>
              /\ WriteEnabled(disk'[current])
              /\ disk'[current].write_status = script'.n ]_vars

\* 100 stores, WRITE_ENABLE, and 136 more stores: writing is still enabled
C25_Witness ==
    /\ script.phase = "armed" /\ script.m = 100 /\ script.n = SECTOR_SIZE - 1
    /\ op = "write"
    /\ WriteEnabled(Cur)
    /\ Cur.write_status = SECTOR_SIZE - 1
    /\ Cur.sector_dirty

RECURSIVE EndsFrom(_)
EndsFrom(ground) ==
    IF {s \in DOMAIN g_patch_pool \ ground :
            g_patch_pool[s].next_pool_index \in ground \cup {PATCH_INDEX_INVALID}} = {}
    THEN ground
    ELSE EndsFrom(ground \cup {s \in DOMAIN g_patch_pool \ ground :
            g_patch_pool[s].next_pool_index \in ground \cup {PATCH_INDEX_INVALID}})

\* every bucket of every drive heads a chain that ends (and so has no cycle)
ChainsEnd(ends) ==
    \A d \in Drives, b \in Buckets :
        disk[d].patch_hash[b] \in ends \cup {PATCH_INDEX_INVALID}

\* the slots on each bucket chain of each drive
Chains == [h \in Drives \X Buckets |-> ChainSlots(g_patch_pool, disk[h[1]].patch_hash[h[2]])]

\* no slot is on two chains, and the slots on chains are the live ones
OneChainEach(chains) ==
    /\ \A h \in DOMAIN chains, k \in DOMAIN chains : h # k => chains[h] \cap chains[k] = {}
    /\ UNION {chains[h] : h \in DOMAIN chains} = LiveSlots

\* C28: after every call, each live slot is reachable from exactly one bucket of
\* exactly one drive, each free slot from none, and every bucket chain is
\* acyclic and ends in PATCH_INDEX_INVALID.
C28_ChainsPartitionLiveSlots ==
    /\ ChainsEnd(EndsFrom({}))
    /\ OneChainEach(Chains)

\* the pool is full, one patch on a chain of drive 0 and 255 on those of drive 1
C28_Witness ==
    /\ g_patch_pool_used = PATCH_POOL_SIZE
    /\ Cardinality(DriveSlots(Pool, disk[0])) = 1
    /\ Cardinality(DriveSlots(Pool, disk[1])) = PATCH_POOL_SIZE - 1
    /\ \E b \in Buckets : Cardinality(ChainSlots(g_patch_pool, disk[1].patch_hash[b])) = 16

(***************************************************************************)
(* SpecPatch: two drives share the patch pool.  The host loads image 1 in  *)
(* drive 0 and image 2 in drive 1; up to PatchCalls calls follow, each a   *)
(* select of drive 0 or 1, a sector(), a write(), a STEP_IN, a STEP_OUT or *)
(* a further load of either drive.                                         *)
(* script.made is the record of the patches made: [d, s, slot] for each    *)
(* slot that became live while drive d was served positioned at sector     *)
(* index s, less those of a drive loaded since.                            *)
(***************************************************************************)
PatchCalls == 6

InitPatch ==
    /\ disk = [d \in Drives |-> InitDrive]
    /\ current = 0
    /\ current_disk = 0
    /\ g_patch_pool = [s \in {} |-> InitSlot]
    /\ g_patch_pool_next_free = 0
    /\ g_patch_pool_used = 0
    /\ g_patch_pool_exhausted = FALSE
    /\ g_log = 0
    /\ flash = [id \in ImageIds |-> ImageOf(id)]
    /\ SdInit
    /\ op = "init" /\ arg = 0 /\ ret = 0
    /\ run = [op |-> "init", n |-> 1, prevOp |-> "init", prevArg |-> 0]
    /\ calls = 0
    /\ script = [phase |-> "boot", made |-> {}]

\* the slots that hold a live patch after the step and held none before
MadeLive ==
    {x \in DOMAIN g_patch_pool' : LiveIn(g_patch_pool', x) /\ ~LiveIn(g_patch_pool, x)}

\* the record after a call served on the selected drive
Serving ==
    /\ script.phase = "calls" /\ calls < PatchCalls + 2
    /\ script' = [script EXCEPT !.made = @ \cup
                     {[d |-> current, s |-> FlushIndex(Cur), slot |-> x] : x \in MadeLive}]

PatchBoot ==
    /\ script.phase = "boot"
    /\ Load(0, 1)
    /\ SdIdle
    /\ script' = [script EXCEPT !.phase = "boot1"]

PatchBootB ==
    /\ script.phase = "boot1"
    /\ Load(1, 2)
    /\ SdIdle
    /\ script' = [script EXCEPT !.phase = "calls"]

PatchSelect == \E d \in {0, 1} : Select(d) /\ SdIdle /\ Serving

PatchSector == Sector /\ SdIdle /\ Serving

PatchWrite == Write(WData(calls)) /\ SdIdle /\ Serving

PatchStepIn == Function(CONTROL_STEP_IN) /\ SdIdle /\ Serving

PatchStepOut == Function(CONTROL_STEP_OUT) /\ SdIdle /\ Serving

PatchLoad ==
    /\ script.phase = "calls" /\ calls < PatchCalls + 2
    /\ \E d \in {0, 1} :
          /\ Load(d, d + 1)
          /\ script' = [script EXCEPT !.made = {m \in @ : m.d # d}]
    /\ SdIdle

NextPatch ==
    \/ PatchBoot
    \/ PatchBootB
    \/ PatchSelect
    \/ PatchSector
    \/ PatchWrite
    \/ PatchStepIn
    \/ PatchStepOut
    \/ PatchLoad

SpecPatch == InitPatch /\ [][NextPatch]_vars

(***************************************************************************)
(* Claims checked under SpecPatch.                                         *)
(***************************************************************************)
\* the sector indexes of the tracks the head reaches
NearIndexes == 0 .. ((PatchCalls + 1) * SECTORS_PER_TRACK)

\* the slots recorded as made for drive d at sector index s
MadeFor(d, s) == {m.slot : m \in {r \in script.made : r.d = d /\ r.s = s}}

\* C31: find(drive, s) returns the slot of the live patch made for that drive
\* at sector index s since the drive was last cleared, and none exactly when
\* there is no such patch; a patch another drive holds for s is never returned.
C31_FindReturnsOwnPatch ==
    \A d \in {0, 1}, s \in NearIndexes :
        /\ MadeFor(d, s) = {} => find_patch_index(Pool, disk[d], s) = PATCH_INDEX_INVALID
        /\ MadeFor(d, s) # {} =>
              /\ find_patch_index(Pool, disk[d], s) \in MadeFor(d, s)
              /\ find_patch_index(Pool, disk[d], s) \notin MadeFor(1 - d, s)
              /\ SlotAt(g_patch_pool, find_patch_index(Pool, disk[d], s)).index = s

\* both drives hold a patch for sector index 0, in different slots
C31_Witness ==
    /\ MadeFor(0, 0) # {} /\ MadeFor(1, 0) # {}
    /\ find_patch_index(Pool, disk[0], 0) # find_patch_index(Pool, disk[1], 0)
    /\ find_patch_index(Pool, disk[1], SECTORS_PER_TRACK) = PATCH_INDEX_INVALID

\* the live slots on drive d's chains that hold sector index s
PatchesHeld(slot, D, s) ==
    {x \in DriveSlots([slot |-> slot], D) : SlotAt(slot, x).index = s}

\* get_patch for drive d and sector index s, called in the present state
GetPatchNow(d, s) ==
    \E g \in {get_patch(Pool, disk[d], s)}, existing \in {find_patch_index(Pool, disk[d], s)} :
        /\ existing # PATCH_INDEX_INVALID =>
              g = [P |-> Pool, D |-> disk[d], idx |-> existing]
        /\ existing = PATCH_INDEX_INVALID /\ g.idx # PATCH_INDEX_INVALID =>
              /\ ~LiveIn(g_patch_pool, g.idx)
              /\ SlotAt(g.P.slot, g.idx) =
                    [index |-> s, data |-> ZeroBytes(SECTOR_SIZE),
                     next_pool_index |-> disk[d].patch_hash[BitAnd(s, 15)]]
              /\ g.D = [disk[d] EXCEPT !.patch_hash[BitAnd(s, 15)] = g.idx]
              /\ g.P.used = g_patch_pool_used + 1
              /\ \A x \in DOMAIN g_patch_pool : SlotAt(g.P.slot, x) = g_patch_pool[x]

\* sector indexes on the first tracks, two of them in bucket 0 and two in bucket 1
SomeIndexes ==
    {0, 1, SECTORS_PER_TRACK, SECTORS_PER_TRACK + 1, 2 * SECTORS_PER_TRACK}

\* a step in which the selected drive's dirty buffer is flushed to a sector
\* that already has a patch: the patch is overwritten where it is
FlushReuses ==
    LET existing == find_patch_index(Pool, Cur, FlushIndex(Cur))
    IN  Cur.sector_dirty /\ ~disk'[current].sector_dirty /\ op' \notin {"load", "select"}
        /\ existing # PATCH_INDEX_INVALID =>
            /\ g_patch_pool_used' = g_patch_pool_used
            /\ DOMAIN g_patch_pool' = DOMAIN g_patch_pool
            /\ \A x \in DOMAIN g_patch_pool :
                  g_patch_pool'[x] =
                     IF x = existing
                     THEN [g_patch_pool[x] EXCEPT !.data = SubSeq(Cur.sector_data, 1, SECTOR_SIZE)]
                     ELSE g_patch_pool[x]
            /\ \A d \in Drives : disk'[d].patch_hash = disk[d].patch_hash

\* C32: get_or_create returns the existing patch when there is one, changing
\* neither the used count nor any chain, so a drive never holds two live
\* patches for one sector index and repeated flushes of a sector reuse one
\* slot; a new patch is zeroed and put at the head of bucket s AND 15 of the
\* drive, in front of the former head.
C32_GetOrCreate ==
    /\ [](\A d \in {0, 1}, s \in SomeIndexes :
             /\ GetPatchNow(d, s)
             /\ Cardinality(PatchesHeld(g_patch_pool, disk[d], s)) <= 1)
    /\ [][FlushReuses]_vars

\* drive 0 patched sector 0, then sector 32 in front of it on bucket 0's chain,
\* and then flushed sector 0 a second time into the slot it has
C32_Witness ==
    /\ op = "sector" /\ run.prevOp = "write" /\ calls = PatchCalls + 2
    /\ g_patch_pool_used = 2
    /\ LET head == disk[0].patch_hash[0]
       IN  /\ head # PATCH_INDEX_INVALID
           /\ SlotAt(g_patch_pool, head).index = SECTORS_PER_TRACK
           /\ SlotAt(g_patch_pool, head).next_pool_index = find_patch_index(Pool, disk[0], 0)
           /\ find_patch_index(Pool, disk[0], 0) # PATCH_INDEX_INVALID
           /\ SlotAt(g_patch_pool, find_patch_index(Pool, disk[0], 0)).data[1] = run.prevArg
           /\ run.prevArg = WData(PatchCalls)

\* a step that makes find(d, s) return a patch where it returned none
FindAppears(d, s) ==
    /\ find_patch_index(Pool, disk[d], s) = PATCH_INDEX_INVALID
    /\ find_patch_index(Pool', disk'[d], s) # PATCH_INDEX_INVALID

\* C33: after clear(drive), find(drive, s) returns none for every s until a
\* new patch is created for that drive, and a second clear right after the
\* first changes nothing.
C33_ClearEmptiesDrive ==
    /\ [](\A d \in {0, 1} :
            \E c \in {clear_patches(Pool, disk[d])} :
                /\ \A s \in NearIndexes : find_patch_index(c.P, c.D, s) = PATCH_INDEX_INVALID
                /\ clear_patches(c.P, c.D) = c)
    /\ [][/\ op' = "load" =>
               \A s \in NearIndexes :
                   find_patch_index(Pool', disk'[arg'], s) = PATCH_INDEX_INVALID
          /\ \A d \in {0, 1}, s \in SomeIndexes :
               FindAppears(d, s) =>
                   /\ d = current /\ op' # "load"
                   /\ \E x \in MadeLive : x = find_patch_index(Pool', disk'[d], s)]_vars

\* drive 0 was loaded while it held a patch and drive 1 held one for the same
\* sector: drive 0's slot is free, drive 1's patch is found as before
C33_Witness ==
    /\ op = "load" /\ arg = 0
    /\ \E x \in DOMAIN g_patch_pool : ~LiveIn(g_patch_pool, x)
    /\ find_patch_index(Pool, disk[0], 0) = PATCH_INDEX_INVALID
    /\ MadeFor(1, 0) # {}
    /\ find_patch_index(Pool, disk[1], 0) \in MadeFor(1, 0)

\* C38: select() changes the selection and nothing else: the drive it leaves
\* keeps its dirty buffer, sector_pointer, write counter, position and status,
\* no call serves a drive that is not selected, and the pending bytes are
\* flushed later into the patch table of the drive they were written on, under
\* the sector that drive is positioned at.
C38_SelectKeepsPendingWrite ==
    [][/\ op' = "select" =>
             /\ disk' = disk
             /\ Pool' = Pool
             /\ flash' = flash
             /\ current' = SelectedDrive(arg')
       /\ op' # "load" => \A d \in Drives \ {current} : disk'[d] = disk[d]
       /\ op' \in {"sector", "function", "write"}
          /\ Cur.sector_dirty /\ ~disk'[current].sector_dirty =>
             /\ \E x \in {find_patch_index(Pool', disk'[current], FlushIndex(Cur))} :
                   /\ x # PATCH_INDEX_INVALID
                   /\ SlotAt(g_patch_pool', x).data = SubSeq(Cur.sector_data, 1, SECTOR_SIZE)
             /\ \A x \in DOMAIN g_patch_pool :
                   x \notin DriveSlots(Pool, Cur) => SlotAt(g_patch_pool', x).data = g_patch_pool[x].data]_vars

\* drive 0 took a byte, drive 1 was selected and took another, drive 0 was
\* selected again and its sector() filed the first byte as drive 0's patch for
\* sector 0, while drive 1's byte is still pending in drive 1's buffer
C38_Witness ==
    /\ op = "sector" /\ run.prevOp = "select" /\ current = 0
    /\ MadeFor(0, 0) # {} /\ MadeFor(1, 0) = {}
    /\ SlotAt(g_patch_pool, find_patch_index(Pool, disk[0], 0)).data[1] = WData(2)
    /\ disk[1].sector_dirty /\ disk[1].sector_data[1] = WData(4)
    /\ disk[1].sector_pointer = 1 /\ disk[1].write_status = 1

(***************************************************************************)
(* SpecIndex: one drive is loaded and stepped in up to IndexSteps times;   *)
(* up to IndexSectors sector() calls follow; then, IndexRounds times, a    *)
(* byte is written and flushed by a sector(), a STEP_IN or a STEP_OUT.     *)
(* script.sec is the sector number the last sector() call returned since   *)
(* the last step (0 when there was none), script.wrote the place the head  *)
(* stood at when the pending byte was written, as track * 32 + sector, and *)
(* script.filed the places of the bytes that have been flushed.            *)
(***************************************************************************)
IndexSteps == 78
IndexSectors == 34
IndexRounds == 2

InitIndex ==
    /\ disk = [d \in Drives |-> InitDrive]
    /\ current = 0
    /\ current_disk = 0
    /\ g_patch_pool = [s \in {} |-> InitSlot]
    /\ g_patch_pool_next_free = 0
    /\ g_patch_pool_used = 0
    /\ g_patch_pool_exhausted = FALSE
    /\ g_log = 0
    /\ flash = [id \in ImageIds |-> ImageOf(id)]
    /\ SdInit
    /\ op = "init" /\ arg = 0 /\ ret = 0
    /\ run = [op |-> "init", n |-> 1, prevOp |-> "init", prevArg |-> 0]
    /\ calls = 0
    /\ script = [phase |-> "boot", n |-> 0, rounds |-> 0, sec |-> 0, wrote |-> 0,
                 filed |-> {}]

\* the sector number in the byte sector() returned
SectorReturned(r) == (r \div 2) % SECTORS_PER_TRACK

IndexBoot ==
    /\ script.phase = "boot"
    /\ Load(0, 1)
    /\ SdIdle
    /\ script' = [script EXCEPT !.phase = "step"]

IndexStepIn ==
    /\ script.phase = "step" /\ script.n < IndexSteps
    /\ Function(CONTROL_STEP_IN)
    /\ SdIdle
    /\ script' = [script EXCEPT !.n = @ + 1]

IndexSector ==
    /\ script.phase \in {"step", "sector"}
    /\ op = "sector" => run.n < IndexSectors
    /\ Sector
    /\ SdIdle
    /\ script' = [script EXCEPT !.phase = "sector", !.sec = SectorReturned(ret')]

IndexWrite ==
    /\ script.phase \in {"step", "sector", "flushed"}
    /\ Write(WData(calls))
    /\ SdIdle
    /\ script' = [script EXCEPT !.phase = "written",
                                !.wrote = Cur.track * SECTORS_PER_TRACK + script.sec]

IndexFlushSector ==
    /\ script.phase = "written"
    /\ Sector
    /\ SdIdle
    /\ script' = [script EXCEPT
                    !.phase = IF script.rounds + 1 < IndexRounds THEN "flushed" ELSE "done",
                    !.rounds = @ + 1,
                    !.sec = SectorReturned(ret'),
                    !.filed = @ \cup {script.wrote}]

IndexFlushStep ==
    /\ script.phase = "written"
    /\ \E control \in {CONTROL_STEP_IN, CONTROL_STEP_OUT} : Function(control)
    /\ SdIdle
    /\ script' = [script EXCEPT
                    !.phase = IF script.rounds + 1 < IndexRounds THEN "flushed" ELSE "done",
                    !.rounds = @ + 1,
                    !.sec = 0,
                    !.filed = @ \cup {script.wrote}]

NextIndex ==
    \/ IndexBoot
    \/ IndexStepIn
    \/ IndexSector
    \/ IndexWrite
    \/ IndexFlushSector
    \/ IndexFlushStep

SpecIndex == InitIndex /\ [][NextIndex]_vars

\* the highest sector index of a disk: track 76, sector 31
LastIndex == (MAX_TRACKS - 1) * SECTORS_PER_TRACK + SECTORS_PER_TRACK - 1

\* C34: the sector_index of every live patch is track * 32 + sector of the
\* place its bytes were written at, lies in 0..2463 and is never 0xFFFF; the
\* quotient flush_sector converts to 16 bits always fits.
C34_IndexIsWritePosition ==
    /\ \A x \in LiveSlots :
          /\ g_patch_pool[x].index \in script.filed
          /\ g_patch_pool[x].index \in 0 .. LastIndex
          /\ g_patch_pool[x].index # PATCH_INDEX_INVALID
    /\ Cardinality(LiveSlots) = Cardinality(script.filed)
    /\ \A d \in Drives : disk[d].disk_pointer \div SECTOR_SIZE <= LastIndex
    /\ LastIndex = 2463 /\ LastIndex < UINT16

\* a byte written at track 76, sector 31 is filed under 2463
C34_Witness ==
    /\ script.filed = {LastIndex}
    /\ \E x \in LiveSlots : g_patch_pool[x].index = 2463
    /\ Cur.track = MAX_TRACKS - 1

\* C35: for every loaded drive, after every call, the TRACK_0 bit of the status
\* byte is 0 exactly when the drive's track is 0.
C35_Track0BitFollowsTrack ==
    \A d \in Drives :
        disk[d].disk_loaded =>
            (BitAnd(disk[d].status, STATUS_TRACK_0) = 0 <=> disk[d].track = 0)

\* the head stepped in from track 0 and a STEP_OUT, alone or with other control
\* bits, brought it back: the bit is 0 again
C35_Witness ==
    /\ op = "function" /\ BitAnd(arg, CONTROL_STEP_OUT) # 0 /\ BitAnd(arg, CONTROL_STEP_IN) = 0
    /\ script.phase = "done" /\ script.ins = 1
    /\ Cur.disk_loaded /\ Cur.track = 0
    /\ BitAnd(Cur.status, STATUS_TRACK_0) = 0

\* C36: while the pool is full, the flush of a sector the drive already has a
\* patch for succeeds: the patch is overwritten and nothing is logged; only
\* the writes to sectors without a patch are lost.
C36_FullPoolOverwrites ==
    [][g_patch_pool_used = PATCH_POOL_SIZE
       /\ op' \in {"sector", "function"}
       /\ Cur.sector_dirty /\ ~disk'[current].sector_dirty =>
          \E existing \in {find_patch_index(Pool, Cur, FlushIndex(Cur))} :
             /\ g_patch_pool_used' = PATCH_POOL_SIZE
             /\ existing # PATCH_INDEX_INVALID =>
                   /\ g_patch_pool' = [g_patch_pool EXCEPT ![existing].data =
                                          SubSeq(Cur.sector_data, 1, SECTOR_SIZE)]
                   /\ g_patch_pool[existing].data # g_patch_pool'[existing].data
                   /\ g_log' = g_log
                   /\ g_patch_pool_exhausted' = g_patch_pool_exhausted
             /\ existing = PATCH_INDEX_INVALID =>
                   /\ g_patch_pool' = g_patch_pool
                   /\ g_patch_pool_exhausted']_vars

\* the pool is full and a first write to a sector without a patch was lost and
\* logged; the program stepped out, wrote to a sector it had patched and the
\* sector() flushed the byte into that patch, with no second message
C36_Witness ==
    /\ g_patch_pool_used = PATCH_POOL_SIZE
    /\ g_patch_pool_exhausted /\ g_log = 1
    /\ op = "sector" /\ run.prevOp = "write"
    /\ script.over = OverWrites /\ ~script.fresh
    /\ \E x \in {find_patch_index(Pool, Cur, script.idx)} :
          /\ x # PATCH_INDEX_INVALID
          /\ g_patch_pool[x].data[1] = run.prevArg

\* C37: write(b) on a loaded drive stores b in the sector buffer and marks it
\* dirty whether or not ENWD is asserted; the bytes written without a
\* WRITE_ENABLE are filed by the next sector() or step like any others.
C37_WriteNeedsNoEnable ==
    [][(Cur.disk_loaded /\ ~WriteEnabled(Cur)) =>
          /\ (op' = "write" /\ Cur.write_status # SECTOR_SIZE) =>
                /\ disk'[current].sector_data =
                      [Cur.sector_data EXCEPT
                          ![IF Cur.sector_pointer >= SECTOR_SIZE + 2 THEN SECTOR_SIZE + 2
                            ELSE Cur.sector_pointer + 1] = arg']
                /\ disk'[current].sector_dirty
                /\ disk'[current].have_sector_data
                /\ ~WriteEnabled(disk'[current])
          /\ (/\ Cur.sector_dirty /\ g_patch_pool_used < PATCH_POOL_SIZE
              /\ \/ op' = "sector"
                 \/ op' = "function" /\ BitAnd(arg', CONTROL_STEP_IN + CONTROL_STEP_OUT) # 0) =>
                /\ FiledUnder(FlushIndex(Cur), Cur.sector_data)
                /\ BufferReset]_vars

\* a byte written while ENWD was not asserted was filed by the sector() call
\* that followed
C37_Witness ==
    /\ op = "sector" /\ run.prevOp = "write"
    /\ Cur.disk_loaded /\ ~WriteEnabled(Cur)
    /\ \E x \in {find_patch_index(Pool, Cur, 0)} :
          /\ x # PATCH_INDEX_INVALID
          /\ g_patch_pool[x].data[1] = run.prevArg

\* C39: in the SD controller, the sector() or step that finds the sector buffer
\* dirty writes its SECTOR_SIZE bytes to the file at offset diskPointer,
\* whatever read() and write() calls were made since the last sector() or step.
C39_WriteBackAtDiskPointer ==
    [][(/\ SdCur.disk_loaded /\ SdCur.file # NoFile /\ SdCur.sectorDirty
        /\ op' \in {"sector", "function"}
        /\ ~sd_disk'[sd_current].sectorDirty) =>
          sd_card'[SdCur.file.path] =
             FileWritten(sd_card[SdCur.file.path], SdCur.diskPointer, SdCur.sectorData)]_vars

(***************************************************************************)
(* SpecLock: the flash controller and the SD controller are given the same *)
(* calls.  The host loads all four drives on both, drive d with image      *)
(* (d % 2) + 1.  The program then makes up to LockCalls calls, each a      *)
(* select, a function, a sector(), a status() or a run of writes; one of   *)
(* the runs may be of up to LockWrites writes, and another call follows it *)
(* only when it is one write long or reached SECTOR_SIZE writes.           *)
(* script.units counts the calls, a run of writes as one; script.long      *)
(* tells that the long run was begun.                                      *)
(***************************************************************************)
LockCalls == 4
LockWrites == 139

\* bytes the program writes to port 0x08: drives 1 and 3, and a drive number
\* out of range
LockSelects == {1, 3, 20}

InitLock ==
    /\ disk = [d \in Drives |-> InitDrive]
    /\ current = 0
    /\ current_disk = 0
    /\ g_patch_pool = [s \in {} |-> InitSlot]
    /\ g_patch_pool_next_free = 0
    /\ g_patch_pool_used = 0
    /\ g_patch_pool_exhausted = FALSE
    /\ g_log = 0
    /\ flash = [id \in ImageIds |-> ImageOf(id)]
    /\ SdInit
    /\ op = "init" /\ arg = 0 /\ ret = 0
    /\ run = [op |-> "init", n |-> 1, prevOp |-> "init", prevArg |-> 0]
    /\ calls = 0
    /\ script = [phase |-> "boot", loaded |-> 0, units |-> 0, long |-> FALSE]

LockBoot ==
    /\ script.phase = "boot"
    /\ Load(script.loaded, (script.loaded % 2) + 1)
    /\ SdLoad(script.loaded, (script.loaded % 2) + 1)
    /\ script' = [script EXCEPT
                    !.loaded = @ + 1,
                    !.phase = IF script.loaded = MAX_DRIVES - 1 THEN "calls" ELSE "boot"]

\* a call that is not a write may follow
LockCall ==
    /\ script.phase = "calls" /\ script.units < LockCalls
    /\ (op = "write" /\ run.n > 1) => run.n >= SECTOR_SIZE
    /\ script' = [script EXCEPT !.units = @ + 1]

LockSelect == LockCall /\ \E d \in LockSelects : Select(d) /\ SdSelect(d)

LockStatus == LockCall /\ Status /\ SdStatus

LockFunction == LockCall /\ \E c \in ControlBytes : Function(c) /\ SdFunction(c)

LockSector == LockCall /\ Sector /\ SdSector

LockWrite ==
    /\ script.phase = "calls"
    /\ IF op = "write"
       THEN /\ run.n < LockWrites
            /\ run.n = 1 => ~script.long
            /\ script' = [script EXCEPT !.long = TRUE]
       ELSE /\ script.units < LockCalls
            /\ script' = [script EXCEPT !.units = @ + 1]
    /\ Write(WData(calls)) /\ SdWrite(WData(calls))

NextLock ==
    \/ LockBoot
    \/ LockSelect
    \/ LockStatus
    \/ LockFunction
    \/ LockSector
    \/ LockWrite

SpecLock == InitLock /\ [][NextLock]_vars

\* C40: with all four drives loaded, after any sequence of select, function,
\* sector, status and write calls the flash controller and the SD controller
\* have returned the same status and sector bytes and hold the same selected
\* drive and, for every drive, the same track, sector, write counter and
\* status.
C40_ControllersAgree ==
    script.phase = "calls" =>
        /\ ret = sd_ret
        /\ current = sd_current
        /\ current_disk = sd_currentDisk
        /\ \A d \in Drives :
              /\ disk[d].disk_loaded /\ sd_disk[d].disk_loaded
              /\ disk[d].track = sd_disk[d].track
              /\ disk[d].sector = sd_disk[d].sector
              /\ disk[d].write_status = sd_disk[d].write_status
              /\ disk[d].status = sd_disk[d].status

\* drive 1 was selected and armed, the 138th write of a run disarmed it on
\* both controllers, and status() returned the same byte from both
C40_Witness ==
    /\ op = "status" /\ run.prevOp = "write" /\ script.units = 4 /\ script.long
    /\ calls = MAX_DRIVES + 2 + SECTOR_SIZE + 1 + 1
    /\ current = 1 /\ sd_current = 1
    /\ Cur.write_status = 0 /\ SdCur.write_status = 0
    /\ ~WriteEnabled(Cur)
    /\ ret = Cur.status /\ sd_ret = ret
====
